---- MODULE Spec2Model ----
(***************************************************************************)
(* Campus Amenities API (backend/main.py): the review lifecycle and the    *)
(* composite writers, run by concurrent request handlers against one       *)
(* PostgreSQL store through psycopg2 connections.                          *)
(*                                                                         *)
(* A handler is a sequence of steps of one client: the statement it        *)
(* executes takes its row locks and leaves its writes pending in the       *)
(* client's transaction; commit makes them visible to the other clients    *)
(* (READ COMMITTED).  Ratings are counted in thousandths of a star.        *)
(***************************************************************************)
EXTENDS Integers, Sequences, FiniteSets, TLC

\* ---------------------------------------------------------------- bounds
NumClients == 2
MaxTime == 2

\* ---------------------------------------------------- program constants
MinRating == 0
MaxRating == 5000
ListLimitMin == 1
ListLimitMax == 1500
ListLimitDefault == 50
MinLat == -90
MaxLat == 90
MinLon == -180
MaxLon == 180
LeaderboardLimit == 15

Clients == 1 .. NumClients
\* The users and the amenities of the catalogue the reviews refer to.
CatalogueUsers == {1, 2}
CatalogueAmenityIds == {1, 2}
\* Review bodies <<overall_rating, rating_details>>: 6.0 stars is out of range.
ValidBodies == {<<2000, "d1">>, <<4500, "d2">>}
ReviewBodies == ValidBodies \cup {<<6000, "d1">>}
\* The text of a column that is NULL.
Null == <<"<null>">>
\* An optional request parameter that was not sent (Python's None).
None == <<"<none>">>

\* The catalogue the store holds from the start.
CatalogueAddress == {[addressid |-> 1, address |-> <<"a", " ", "b">>,
                      lat |-> 40, lon |-> -88]}
CatalogueBuilding == {[buildingid |-> 1, name |-> <<"A", "b">>,
                       addressid |-> 1]}
CatalogueAmenity ==
    {[amenityid |-> i, buildingid |-> 1,
      type |-> IF i % 2 = 1 THEN "Bathroom" ELSE "WaterFountain",
      floor |-> "1", notes |-> Null] : i \in CatalogueAmenityIds}

\* The User rows of the catalogue's users: UserName, and the unique Email.
CatalogueUserRows ==
    {[userid |-> 1, username |-> "ann", email |-> "ann@x"],
     [userid |-> 2, username |-> "bob", email |-> "bob@x"]}

CatalogueTag == {[tagid |-> 1, label |-> "Clean"],
                 [tagid |-> 2, label |-> "ColdWater"]}

VARIABLES
    address,     \* committed Address rows
    building,    \* committed Building rows
    amenity,     \* committed Amenity rows
    tag,         \* committed Tag rows
    amenitytag,  \* committed AmenityTag rows
    user,        \* committed User rows
    review,      \* committed Review rows
    seq,         \* the identity sequences of the tables
    now,         \* the store's clock: the statements executed so far
    pc,          \* per client: the handler step it is at
    op,          \* per client: the request it is serving
    conn,        \* per client: its connection ("closed", "ready", "begin")
    pending,     \* per client: the uncommitted write of its transaction
    last,        \* the step taken last, and the response if it returned one
    hist         \* per client: the calls of a scenario (SpecRace)

tables == <<address, building, amenity, tag, amenitytag, user>>
vars == <<address, building, amenity, tag, amenitytag, user, review, seq, now,
          pc, op, conn, pending, last, hist>>

\* ------------------------------------------------------------ responses
NoOp == [kind |-> "none"]
NoResult == [kind |-> "none", status |-> 0, path |-> "", id |-> 0, id2 |-> 0,
             rows |-> <<>>]
Response(kind, status, path, id, id2, rows) ==
    [kind |-> kind, status |-> status, path |-> path, id |-> id, id2 |-> id2,
     rows |-> rows]

\* ------------------------------------------------- the store: Review rows
NoRow == [reviewid |-> 0, userid |-> 0, amenityid |-> 0, overallrating |-> 0,
          ratingdetails |-> "", timestamp |-> 0]
NoPending == [kind |-> "none", row |-> NoRow, address |-> {}, building |-> {},
              amenity |-> {}, amenitytag |-> {}]
ReviewWrite(kind, row) == [NoPending EXCEPT !.kind = kind, !.row = row]

ReviewRow(id, u, a, r, d, t) ==
    [reviewid |-> id, userid |-> u, amenityid |-> a, overallrating |-> r,
     ratingdetails |-> d, timestamp |-> t]

\* The committed reviews of a (userid, amenityid) pair, and of a review id.
\* A review the store may hold from the start, and the ids of reviews.
SeedReview == ReviewRow(1, 1, 1, 2000, "d1", 0)
ReviewIds == 1 .. MaxTime + SeedReview.reviewid

ReviewsOfPair(u, a) == {r \in review : r.userid = u /\ r.amenityid = a}
ReviewsOfId(id) == {r \in review : r.reviewid = id}

\* A store that takes no lock on a unique key.
NoKeyLock(c, u, a) == FALSE

\* Row locks (READ COMMITTED): a statement waits for another client's open
\* transaction that has inserted the same unique key or written the same row.
KeyLockedByOther(c, u, a) ==
    \E d \in Clients \ {c} :
        /\ pending[d].kind # "none"
        /\ pending[d].row.userid = u
        /\ pending[d].row.amenityid = a
RowLockedByOther(c, id) ==
    \E d \in Clients \ {c} :
        /\ pending[d].kind \in {"update", "delete"}
        /\ pending[d].row.reviewid = id

\* A store without the unique constraint.
NoReviewUniqueViolation(u, a) == FALSE

\* Review (userid, amenityid) is unique: an insert of a pair that has a
\* committed row violates the constraint.
ReviewUniqueViolation(u, a) == ReviewsOfPair(u, a) # {}
\* Review.userid and Review.amenityid reference existing rows.
ReviewForeignKeyViolation(u, a) ==
    \/ u \notin {x.userid : x \in user}
    \/ a \notin {m.amenityid : m \in amenity}

\* What commit makes of the Review table, given the transaction's write.
ApplyReviewWrite(w) ==
    CASE w.kind = "insert" -> review \cup {w.row}
      [] w.kind = "update" ->
            {r \in review : r.reviewid # w.row.reviewid} \cup {w.row}
      [] w.kind = "delete" -> {r \in review : r.reviewid # w.row.reviewid}
      [] OTHER -> review

\* A request model whose overall_rating has no bounds.
AnyRating(r) == TRUE

\* ReviewCreate.overall_rating: Field(ge=0, le=5).
ValidRating(r) == MinRating <= r /\ r <= MaxRating

\* ------------------------------------------------------- handler plumbing
\* The step taken last: by client c, of request req, answering res.
StepOf(a, c, req, res) == [a |-> a, c |-> c, req |-> req, res |-> res]
Step(a, c, res) == StepOf(a, c, NoOp, res)

\* The handler returns `res`: finally: conn.close(); what the transaction
\* has not committed is lost.
Finish(c, a, res) ==
    /\ pc' = [pc EXCEPT ![c] = "idle"]
    /\ op' = [op EXCEPT ![c] = NoOp]
    /\ conn' = [conn EXCEPT ![c] = "closed"]
    /\ pending' = [pending EXCEPT ![c] = NoPending]
    /\ last' = Step(a, c, res)

\* cur.execute(...) of request `o` succeeded inside the transaction psycopg2
\* began for it; the handler goes on to step `next` with the write `w` pending.
Executed(c, a, o, w, next) ==
    /\ pc' = [pc EXCEPT ![c] = next]
    /\ op' = [op EXCEPT ![c] = o]
    /\ conn' = [conn EXCEPT ![c] = "begin"]
    /\ pending' = [pending EXCEPT ![c] = w]
    /\ last' = Step(a, c, NoResult)

\* except psycopg2.Error as e: conn.rollback(); raise HTTPException(400,
\* detail=str(e)).  `class` is the error the message of `detail` names.
create_review_error(class) == Response("create_review", 400, class, 0, 0, <<>>)

\* A handler without `raise` in its except clause: the refused insert is
\* answered like a success.
create_review_swallow(c, u, a, r, d) ==
    /\ pc[c] = "idle"
    /\ ValidRating(r)
    /\ now < MaxTime
    /\ ~KeyLockedByOther(c, u, a)
    /\ seq' = [seq EXCEPT !.review = @ + 1]
    /\ now' = now + 1
    /\ IF ReviewForeignKeyViolation(u, a) \/ ReviewUniqueViolation(u, a)
       THEN Finish(c, "create_review_execute",
                   Response("create_review", 200, "", 0, 0, <<>>))
       ELSE Executed(c, "create_review_execute",
                [kind |-> "create_review", user_id |-> u,
                 amenity_id |-> a, overall_rating |-> r,
                 rating_details |-> d],
                ReviewWrite("insert",
                    ReviewRow(seq.review + 1, u, a, r, d, now)),
                "commit")
    /\ UNCHANGED <<tables, review>>

\* ------------------------------------------------ POST /reviews (create)
create_review_execute(c, u, a, r, d) ==
    /\ pc[c] = "idle"
    /\ IF ~ValidRating(r)
       THEN \* the request body is rejected before the handler runs
            /\ Finish(c, "create_review_execute",
                      Response("create_review", 422, "", 0, 0, <<>>))
            /\ UNCHANGED <<seq, now>>
       ELSE /\ now < MaxTime
            /\ ~KeyLockedByOther(c, u, a)
            /\ seq' = [seq EXCEPT !.review = @ + 1]
            /\ now' = now + 1
            /\ IF ReviewForeignKeyViolation(u, a)
               THEN Finish(c, "create_review_execute",
                           create_review_error("ForeignKeyViolation"))
               ELSE IF ReviewUniqueViolation(u, a)
               THEN Finish(c, "create_review_execute",
                           create_review_error("UniqueViolation"))
               ELSE Executed(c, "create_review_execute",
                        [kind |-> "create_review", user_id |-> u,
                         amenity_id |-> a, overall_rating |-> r,
                         rating_details |-> d],
                        ReviewWrite("insert",
                            ReviewRow(seq.review + 1, u, a, r, d, now)),
                        "commit")
    /\ UNCHANGED <<tables, review>>

create_review_commit(c) ==
    /\ pc[c] = "commit"
    /\ op[c].kind = "create_review"
    /\ review' = ApplyReviewWrite(pending[c])
    /\ Finish(c, "create_review_commit",
              Response("create_review", 200, "insert",
                       pending[c].row.reviewid, 0, <<>>))
    /\ UNCHANGED <<tables, seq, now>>

\* ------------------------------------------- PUT /reviews/{review_id}
\* A handler whose UPDATE sets both columns to the values of the request,
\* the one that was not sent included.
update_review_overwrite(c, id, hasRating, r, hasDetails, d) ==
    /\ pc[c] = "idle"
    /\ IF hasRating /\ ~ValidRating(r)
       THEN /\ Finish(c, "update_review_execute",
                      Response("update_review", 422, "", 0, 0, <<>>))
            /\ UNCHANGED now
       ELSE IF ~hasRating /\ ~hasDetails
       THEN \* "No fields provided to update"
            /\ Finish(c, "update_review_execute",
                      Response("update_review", 400, "", 0, 0, <<>>))
            /\ UNCHANGED now
       ELSE /\ now < MaxTime
            /\ ~RowLockedByOther(c, id)
            /\ now' = now + 1
            /\ IF ReviewsOfId(id) = {}
               THEN \* no row returned: rollback, 404
                    Finish(c, "update_review_execute",
                           Response("update_review", 404, "", 0, 0, <<>>))
               ELSE LET old == CHOOSE x \in ReviewsOfId(id) : TRUE
                        new == [old EXCEPT !.overallrating = r,
                                           !.ratingdetails = d]
                    IN  Executed(c, "update_review_execute",
                            [kind |-> "update_review", review_id |-> id,
                             has_rating |-> hasRating, overall_rating |-> r,
                             has_details |-> hasDetails, rating_details |-> d],
                            ReviewWrite("update", new), "commit")
    /\ UNCHANGED <<tables, review, seq>>

update_review_execute(c, id, hasRating, r, hasDetails, d) ==
    /\ pc[c] = "idle"
    /\ IF hasRating /\ ~ValidRating(r)
       THEN /\ Finish(c, "update_review_execute",
                      Response("update_review", 422, "", 0, 0, <<>>))
            /\ UNCHANGED now
       ELSE IF ~hasRating /\ ~hasDetails
       THEN \* "No fields provided to update"
            /\ Finish(c, "update_review_execute",
                      Response("update_review", 400, "", 0, 0, <<>>))
            /\ UNCHANGED now
       ELSE /\ now < MaxTime
            /\ ~RowLockedByOther(c, id)
            /\ now' = now + 1
            /\ IF ReviewsOfId(id) = {}
               THEN \* no row returned: rollback, 404
                    Finish(c, "update_review_execute",
                           Response("update_review", 404, "", 0, 0, <<>>))
               ELSE LET old == CHOOSE x \in ReviewsOfId(id) : TRUE
                        new == [old EXCEPT
                                  !.overallrating =
                                      IF hasRating THEN r ELSE @,
                                  !.ratingdetails =
                                      IF hasDetails THEN d ELSE @]
                    IN  Executed(c, "update_review_execute",
                            [kind |-> "update_review", review_id |-> id,
                             has_rating |-> hasRating, overall_rating |-> r,
                             has_details |-> hasDetails, rating_details |-> d],
                            ReviewWrite("update", new), "commit")
    /\ UNCHANGED <<tables, review, seq>>

update_review_commit(c) ==
    /\ pc[c] = "commit"
    /\ op[c].kind = "update_review"
    /\ review' = ApplyReviewWrite(pending[c])
    /\ Finish(c, "update_review_commit",
              Response("update_review", 200, "update",
                       pending[c].row.reviewid, 0, <<pending[c].row>>))
    /\ UNCHANGED <<tables, seq, now>>

\* ---------------------------------------- DELETE /reviews/{review_id}
\* A handler that does not look at the row the DELETE returns: it answers
\* with the id it was given, whether a review had it or not.
delete_review_any(c, id, fail) ==
    /\ pc[c] = "idle"
    /\ IF fail
       THEN /\ Finish(c, "delete_review_execute",
                      Response("delete_review", 500, "OperationalError", 0, 0,
                               <<>>))
            /\ UNCHANGED now
       ELSE /\ now < MaxTime
            /\ ~RowLockedByOther(c, id)
            /\ now' = now + 1
            /\ IF ReviewsOfId(id) = {}
               THEN Finish(c, "delete_review_execute",
                           Response("delete_review", 200, "delete", id, 0,
                                    <<>>))
               ELSE Executed(c, "delete_review_execute",
                        [kind |-> "delete_review", review_id |-> id],
                        ReviewWrite("delete",
                                    CHOOSE x \in ReviewsOfId(id) : TRUE),
                        "commit")
    /\ UNCHANGED <<tables, review, seq>>

\* `fail`: the store raises at the DELETE.  The handler has no except clause:
\* finally closes the connection and the exception leaves the handler, which
\* the framework answers with 500 Internal Server Error.
delete_review_execute(c, id, fail) ==
    /\ pc[c] = "idle"
    /\ IF fail
       THEN /\ Finish(c, "delete_review_execute",
                      Response("delete_review", 500, "OperationalError", 0, 0,
                               <<>>))
            /\ UNCHANGED now
       ELSE /\ now < MaxTime
            /\ ~RowLockedByOther(c, id)
            /\ now' = now + 1
            /\ IF ReviewsOfId(id) = {}
               THEN \* no row returned: rollback, 404
                    Finish(c, "delete_review_execute",
                           Response("delete_review", 404, "", 0, 0, <<>>))
               ELSE Executed(c, "delete_review_execute",
                        [kind |-> "delete_review", review_id |-> id],
                        ReviewWrite("delete",
                                    CHOOSE x \in ReviewsOfId(id) : TRUE),
                        "commit")
    /\ UNCHANGED <<tables, review, seq>>

delete_review_commit(c) ==
    /\ pc[c] = "commit"
    /\ op[c].kind = "delete_review"
    /\ review' = ApplyReviewWrite(pending[c])
    /\ Finish(c, "delete_review_commit",
              Response("delete_review", 200, "delete",
                       pending[c].row.reviewid, 0, <<>>))
    /\ UNCHANGED <<tables, seq, now>>

\* -------------------------------------------------- POST /reviews/upsert
\* A procedure whose DO UPDATE also sets the timestamp to the current time.
sp_upsert_review_touch(u, a, r, d, id) ==
    IF ReviewsOfPair(u, a) = {}
    THEN ReviewWrite("insert", ReviewRow(id, u, a, r, d, now))
    ELSE LET old == CHOOSE x \in ReviewsOfPair(u, a) : TRUE
         IN  ReviewWrite("update", [old EXCEPT !.overallrating = r,
                                               !.ratingdetails = d,
                                               !.timestamp = now])

\* The stored procedure: one INSERT ... ON CONFLICT (userid, amenityid)
\* DO UPDATE SET overallrating, ratingdetails.  The write it leaves pending.
sp_upsert_review(u, a, r, d, id) ==
    IF ReviewsOfPair(u, a) = {}
    THEN ReviewWrite("insert", ReviewRow(id, u, a, r, d, now))
    ELSE LET old == CHOOSE x \in ReviewsOfPair(u, a) : TRUE
         IN  ReviewWrite("update", [old EXCEPT !.overallrating = r,
                                               !.ratingdetails = d])

upsert_review_execute(c, u, a, r, d) ==
    /\ pc[c] = "idle"
    /\ IF ~ValidRating(r)
       THEN /\ Finish(c, "upsert_review_execute",
                      Response("upsert_review", 422, "", 0, 0, <<>>))
            /\ UNCHANGED <<seq, now>>
       ELSE /\ now < MaxTime
            /\ ~KeyLockedByOther(c, u, a)
            /\ seq' = [seq EXCEPT !.review = @ + 1]
            /\ now' = now + 1
            /\ IF ReviewForeignKeyViolation(u, a)
               THEN \* except psycopg2.Error: rollback, 400
                    Finish(c, "upsert_review_execute",
                           Response("upsert_review", 400, "", 0, 0, <<>>))
               ELSE Executed(c, "upsert_review_execute",
                        [kind |-> "upsert_review", user_id |-> u,
                         amenity_id |-> a, overall_rating |-> r,
                         rating_details |-> d],
                        sp_upsert_review(u, a, r, d, seq.review + 1),
                        "commit")
    /\ UNCHANGED <<tables, review>>

\* A handler without conn.commit(): closing the connection discards the
\* write.
upsert_review_no_commit(c) ==
    /\ pc[c] = "commit"
    /\ op[c].kind = "upsert_review"
    /\ review' = review
    /\ Finish(c, "upsert_review_commit",
              Response("upsert_review", 200, pending[c].kind,
                       pending[c].row.reviewid, 0, <<>>))
    /\ UNCHANGED <<tables, seq, now>>

\* conn.commit(); the response carries a message only: `path` and `id` record
\* what the call did.
upsert_review_commit(c) ==
    /\ pc[c] = "commit"
    /\ op[c].kind = "upsert_review"
    /\ review' = ApplyReviewWrite(pending[c])
    /\ Finish(c, "upsert_review_commit",
              Response("upsert_review", 200, pending[c].kind,
                       pending[c].row.reviewid, 0, <<>>))
    /\ UNCHANGED <<tables, seq, now>>

\* ---------------------------------------------- psycopg2 connections
\* A connection is "ready" until a statement is executed on it: psycopg2 then
\* begins a transaction ("begin"), which lasts until commit or rollback.
\* connection.set_session() raises ProgrammingError ("set_session cannot be
\* used inside a transaction") on a connection that is in a transaction.
SetSessionRaises(status) == status = "begin"

\* The classes of psycopg2.Error a response reports in `path`.
StoreErrors == {"OperationalError", "IntegrityError", "UniqueViolation",
                "ForeignKeyViolation"}

\* The handler goes on to step `next` with its locals `o` and the writes `w`.
Continue(c, a, o, w, next) ==
    /\ pc' = [pc EXCEPT ![c] = next]
    /\ op' = [op EXCEPT ![c] = o]
    /\ pending' = [pending EXCEPT ![c] = w]
    /\ last' = StepOf(a, c, o, NoResult)
    /\ UNCHANGED conn

\* The handler returns `res` to request `req`.
Return(c, a, req, res) ==
    /\ pc' = [pc EXCEPT ![c] = "idle"]
    /\ op' = [op EXCEPT ![c] = NoOp]
    /\ conn' = [conn EXCEPT ![c] = "closed"]
    /\ pending' = [pending EXCEPT ![c] = NoPending]
    /\ last' = StepOf(a, c, req, res)

\* An exception leaves the handler before its try block: nothing closes the
\* connection.
Escape(c, a, req, res) ==
    /\ pc' = [pc EXCEPT ![c] = "idle"]
    /\ op' = [op EXCEPT ![c] = NoOp]
    /\ conn' = [conn EXCEPT ![c] = "ready"]
    /\ pending' = [pending EXCEPT ![c] = NoPending]
    /\ last' = StepOf(a, c, req, res)

\* ------------------------------------- the store: Address and Building
\* Address.address is unique.
AddressUniqueViolation(text) == \E ad \in address : ad.address = text
AddressLockedByOther(c, text) ==
    \E d \in Clients \ {c} : \E ad \in pending[d].address : ad.address = text

\* BuildingWithAddressCreate: lat Field(ge=-90, le=90), lon Field(ge=-180,
\* le=180).
ValidLatLon(lat, lon) ==
    /\ MinLat <= lat /\ lat <= MaxLat
    /\ MinLon <= lon /\ lon <= MaxLon

\* --------------------------------------- POST /buildings/with-address
BuildingError(c, req, class) ==
    Return(c, "create_building_with_address", req,
           Response("create_building_with_address", 400, class, 0, 0, <<>>))

\* The request arrives; the handler opens a connection and executes
\* SET TRANSACTION ISOLATION LEVEL READ COMMITTED (`fail`: the store raises).
create_building_with_address_begin(c, name, addr, lat, lon, fail) ==
    LET req == [kind |-> "create_building_with_address", name |-> name,
                address |-> addr, lat |-> lat, lon |-> lon,
                address_id |-> 0, building_id |-> 0]
    IN  /\ pc[c] = "idle"
        /\ IF ~ValidLatLon(lat, lon)
           THEN Return(c, "create_building_with_address", req,
                    Response("create_building_with_address", 422, "", 0, 0,
                             <<>>))
           ELSE IF fail
           THEN BuildingError(c, req, "OperationalError")
           ELSE Executed(c, "create_building_with_address", req, NoPending,
                         "set_session")
        /\ UNCHANGED <<tables, review, seq, now, hist>>

\* A variant of the handler on a connection in autocommit mode: no statement
\* opens a transaction, set_session is accepted, and every INSERT is
\* committed as it is executed.
create_building_with_address_autocommit(c, fail) ==
    /\ op[c].kind = "create_building_with_address"
    /\ UNCHANGED <<amenity, tag, amenitytag, user, review, now, hist>>
    /\ CASE pc[c] = "set_session" ->
            /\ Continue(c, "create_building_with_address", op[c], pending[c],
                        "insert_address")
            /\ UNCHANGED <<address, building, seq>>
         [] pc[c] = "insert_address" ->
            /\ UNCHANGED building
            /\ IF fail
               THEN BuildingError(c, op[c], "OperationalError")
                    /\ UNCHANGED <<address, seq>>
               ELSE /\ seq.address < MaxTime + Cardinality(CatalogueAddress)
                    /\ seq' = [seq EXCEPT !.address = @ + 1]
                    /\ IF AddressUniqueViolation(op[c].address)
                       THEN BuildingError(c, op[c], "IntegrityError")
                            /\ UNCHANGED address
                       ELSE /\ address' = address \cup
                                    {[addressid |-> seq.address + 1,
                                      address |-> op[c].address,
                                      lat |-> op[c].lat, lon |-> op[c].lon]}
                            /\ Continue(c, "create_building_with_address",
                                [op[c] EXCEPT !.address_id = seq.address + 1],
                                pending[c], "insert_building")
         [] pc[c] = "insert_building" ->
            /\ UNCHANGED address
            /\ IF fail
               THEN BuildingError(c, op[c], "OperationalError")
                    /\ UNCHANGED <<building, seq>>
               ELSE /\ seq' = [seq EXCEPT !.building = @ + 1]
                    /\ building' = building \cup
                            {[buildingid |-> seq.building + 1,
                              name |-> op[c].name,
                              addressid |-> op[c].address_id]}
                    /\ Continue(c, "create_building_with_address",
                            [op[c] EXCEPT !.building_id = seq.building + 1],
                            pending[c], "commit")
         [] OTHER ->
            /\ UNCHANGED <<address, building, seq>>
            /\ Return(c, "create_building_with_address", op[c],
                   Response("create_building_with_address", 200, "",
                            op[c].building_id, op[c].address_id, <<>>))

\* The rest of the handler, a statement at a time (`fail`: the store raises
\* at this statement); every psycopg2.Error and Exception ends in
\* conn.rollback() and a 400.
create_building_with_address(c, fail) ==
    /\ op[c].kind = "create_building_with_address"
    /\ UNCHANGED <<amenity, tag, amenitytag, user, review, now, hist>>
    /\ CASE pc[c] = "set_session" ->
            \* conn.set_session(autocommit=False)
            /\ IF SetSessionRaises(conn[c])
               THEN BuildingError(c, op[c], "ProgrammingError")
               ELSE Continue(c, "create_building_with_address", op[c],
                             pending[c], "insert_address")
            /\ UNCHANGED <<address, building, seq>>
         [] pc[c] = "insert_address" ->
            \* INSERT INTO address ... RETURNING addressid
            /\ UNCHANGED <<address, building>>
            /\ IF fail
               THEN BuildingError(c, op[c], "OperationalError")
                    /\ UNCHANGED seq
               ELSE /\ seq.address < MaxTime + Cardinality(CatalogueAddress)
                    /\ ~AddressLockedByOther(c, op[c].address)
                    /\ seq' = [seq EXCEPT !.address = @ + 1]
                    /\ IF AddressUniqueViolation(op[c].address)
                       THEN BuildingError(c, op[c], "IntegrityError")
                       ELSE Continue(c, "create_building_with_address",
                                [op[c] EXCEPT !.address_id = seq.address + 1],
                                [pending[c] EXCEPT !.address =
                                    {[addressid |-> seq.address + 1,
                                      address |-> op[c].address,
                                      lat |-> op[c].lat, lon |-> op[c].lon]}],
                                "insert_building")
         [] pc[c] = "insert_building" ->
            \* INSERT INTO building ... RETURNING buildingid, name, addressid
            /\ UNCHANGED <<address, building>>
            /\ IF fail
               THEN BuildingError(c, op[c], "OperationalError")
                    /\ UNCHANGED seq
               ELSE /\ seq' = [seq EXCEPT !.building = @ + 1]
                    /\ Continue(c, "create_building_with_address",
                            [op[c] EXCEPT !.building_id = seq.building + 1],
                            [pending[c] EXCEPT !.building =
                                {[buildingid |-> seq.building + 1,
                                  name |-> op[c].name,
                                  addressid |-> op[c].address_id]}],
                            "commit")
         [] OTHER ->
            \* conn.commit()
            /\ UNCHANGED seq
            /\ IF fail
               THEN BuildingError(c, op[c], "OperationalError")
                    /\ UNCHANGED <<address, building>>
               ELSE /\ address' = address \cup pending[c].address
                    /\ building' = building \cup pending[c].building
                    /\ Return(c, "create_building_with_address", op[c],
                           Response("create_building_with_address", 200, "",
                                    op[c].building_id, op[c].address_id, <<>>))

\* --------------------------------------- the store: Amenity, AmenityTag
\* Amenity.buildingid references Building; AmenityTag references Amenity and
\* Tag, and (amenityid, tagid) is its key.
AmenityForeignKeyViolation(b) == \A x \in building : x.buildingid # b
AmenityTagForeignKeyViolation(t) == \A x \in tag : x.tagid # t
AmenityTagConflict(c, a, t) ==
    [amenityid |-> a, tagid |-> t] \in amenitytag \cup pending[c].amenitytag

\* ------------------------------------------ POST /amenities/with-tags
AmenityError(c, req, class) ==
    Return(c, "create_amenity_with_tags", req,
           Response("create_amenity_with_tags", 400, class, 0, 0, <<>>))

\* The request arrives; the handler opens a connection and executes
\* SET TRANSACTION ISOLATION LEVEL READ COMMITTED before its try block
\* (`fail`: the store raises, and the exception leaves the handler).
create_amenity_with_tags_begin(c, building_id, type, floor, notes, tag_ids, fail) ==
    LET req == [kind |-> "create_amenity_with_tags",
                building_id |-> building_id, type |-> type, floor |-> floor,
                notes |-> notes, tag_ids |-> tag_ids,
                amenity_id |-> 0, inserted_tags |-> <<>>, i |-> 1]
    IN  /\ pc[c] = "idle"
        /\ IF fail
           THEN Escape(c, "create_amenity_with_tags", req,
                    Response("create_amenity_with_tags", 500,
                             "OperationalError", 0, 0, <<>>))
           ELSE Executed(c, "create_amenity_with_tags", req, NoPending,
                         "set_session")
        /\ UNCHANGED <<tables, review, seq, now, hist>>

\* A variant of the handler on a connection in autocommit mode: no statement
\* opens a transaction, set_session is accepted, and every INSERT is
\* committed as it is executed.
create_amenity_with_tags_autocommit(c, fail) ==
    /\ op[c].kind = "create_amenity_with_tags"
    /\ UNCHANGED <<address, building, tag, user, review, now, hist>>
    /\ CASE pc[c] = "set_session" ->
            /\ Continue(c, "create_amenity_with_tags", op[c], pending[c],
                        "insert_amenity")
            /\ UNCHANGED <<amenity, amenitytag, seq>>
         [] pc[c] = "insert_amenity" ->
            /\ UNCHANGED amenitytag
            /\ IF fail
               THEN AmenityError(c, op[c], "OperationalError")
                    /\ UNCHANGED <<amenity, seq>>
               ELSE /\ seq.amenity < MaxTime + Cardinality(CatalogueAmenity)
                    /\ seq' = [seq EXCEPT !.amenity = @ + 1]
                    /\ IF AmenityForeignKeyViolation(op[c].building_id)
                       THEN AmenityError(c, op[c], "IntegrityError")
                            /\ UNCHANGED amenity
                       ELSE /\ amenity' = amenity \cup
                                    {[amenityid |-> seq.amenity + 1,
                                      buildingid |-> op[c].building_id,
                                      type |-> op[c].type,
                                      floor |-> op[c].floor,
                                      notes |-> op[c].notes]}
                            /\ Continue(c, "create_amenity_with_tags",
                                [op[c] EXCEPT !.amenity_id = seq.amenity + 1],
                                pending[c],
                                IF op[c].tag_ids = <<>> THEN "commit"
                                                        ELSE "insert_tag")
         [] pc[c] = "insert_tag" ->
            LET tag_id == op[c].tag_ids[op[c].i]
                next == IF op[c].i = Len(op[c].tag_ids) THEN "commit"
                                                         ELSE "insert_tag"
            IN  /\ UNCHANGED <<amenity, seq>>
                /\ IF fail
                   THEN AmenityError(c, op[c], "OperationalError")
                        /\ UNCHANGED amenitytag
                   ELSE IF AmenityTagConflict(c, op[c].amenity_id, tag_id)
                   THEN Continue(c, "create_amenity_with_tags",
                            [op[c] EXCEPT !.i = @ + 1], pending[c], next)
                        /\ UNCHANGED amenitytag
                   ELSE IF AmenityTagForeignKeyViolation(tag_id)
                   THEN AmenityError(c, op[c], "IntegrityError")
                        /\ UNCHANGED amenitytag
                   ELSE /\ amenitytag' = amenitytag \cup
                                {[amenityid |-> op[c].amenity_id,
                                  tagid |-> tag_id]}
                        /\ Continue(c, "create_amenity_with_tags",
                                [op[c] EXCEPT !.i = @ + 1,
                                      !.inserted_tags = Append(@, tag_id)],
                                pending[c], next)
         [] OTHER ->
            /\ UNCHANGED <<amenity, amenitytag, seq>>
            /\ Return(c, "create_amenity_with_tags", op[c],
                   Response("create_amenity_with_tags", 200, "",
                            op[c].amenity_id, 0, op[c].inserted_tags))

\* The try block, a statement at a time (`fail`: the store raises at this
\* statement); every psycopg2.Error and Exception ends in conn.rollback()
\* and a 400.
create_amenity_with_tags(c, fail) ==
    /\ op[c].kind = "create_amenity_with_tags"
    /\ UNCHANGED <<address, building, tag, user, review, now, hist>>
    /\ CASE pc[c] = "set_session" ->
            \* conn.set_session(autocommit=False)
            /\ IF SetSessionRaises(conn[c])
               THEN AmenityError(c, op[c], "ProgrammingError")
               ELSE Continue(c, "create_amenity_with_tags", op[c],
                             pending[c], "insert_amenity")
            /\ UNCHANGED <<amenity, amenitytag, seq>>
         [] pc[c] = "insert_amenity" ->
            \* INSERT INTO amenity ... RETURNING amenityid
            /\ UNCHANGED <<amenity, amenitytag>>
            /\ IF fail
               THEN AmenityError(c, op[c], "OperationalError")
                    /\ UNCHANGED seq
               ELSE /\ seq.amenity < MaxTime + Cardinality(CatalogueAmenity)
                    /\ seq' = [seq EXCEPT !.amenity = @ + 1]
                    /\ IF AmenityForeignKeyViolation(op[c].building_id)
                       THEN AmenityError(c, op[c], "IntegrityError")
                       ELSE Continue(c, "create_amenity_with_tags",
                                [op[c] EXCEPT !.amenity_id = seq.amenity + 1],
                                [pending[c] EXCEPT !.amenity =
                                    {[amenityid |-> seq.amenity + 1,
                                      buildingid |-> op[c].building_id,
                                      type |-> op[c].type,
                                      floor |-> op[c].floor,
                                      notes |-> op[c].notes]}],
                                IF op[c].tag_ids = <<>> THEN "commit"
                                                        ELSE "insert_tag")
         [] pc[c] = "insert_tag" ->
            \* for tag_id in payload.tag_ids: INSERT INTO amenitytag ...
            \* ON CONFLICT (amenityid, tagid) DO NOTHING RETURNING tagid
            LET tag_id == op[c].tag_ids[op[c].i]
                next == IF op[c].i = Len(op[c].tag_ids) THEN "commit"
                                                         ELSE "insert_tag"
            IN  /\ UNCHANGED <<amenity, amenitytag, seq>>
                /\ IF fail
                   THEN AmenityError(c, op[c], "OperationalError")
                   ELSE IF AmenityTagConflict(c, op[c].amenity_id, tag_id)
                   THEN Continue(c, "create_amenity_with_tags",
                            [op[c] EXCEPT !.i = @ + 1], pending[c], next)
                   ELSE IF AmenityTagForeignKeyViolation(tag_id)
                   THEN AmenityError(c, op[c], "IntegrityError")
                   ELSE Continue(c, "create_amenity_with_tags",
                            [op[c] EXCEPT !.i = @ + 1,
                                          !.inserted_tags = Append(@, tag_id)],
                            [pending[c] EXCEPT !.amenitytag =
                                @ \cup {[amenityid |-> op[c].amenity_id,
                                         tagid |-> tag_id]}],
                            next)
         [] OTHER ->
            \* conn.commit()
            /\ UNCHANGED seq
            /\ IF fail
               THEN AmenityError(c, op[c], "OperationalError")
                    /\ UNCHANGED <<amenity, amenitytag>>
               ELSE /\ amenity' = amenity \cup pending[c].amenity
                    /\ amenitytag' = amenitytag \cup pending[c].amenitytag
                    /\ Return(c, "create_amenity_with_tags", op[c],
                           Response("create_amenity_with_tags", 200, "",
                                    op[c].amenity_id, 0,
                                    op[c].inserted_tags))

\* ------------------------------------------------------ POST /amenities
\* AmenityCreate holds a building_id, a type and a floor (texts of at most 40
\* and 20 characters, as those of the requests here are) and optional notes.
\* The handler inserts what it is given (`fail`: the store raises).
create_amenity(c, building_id, type, floor, notes, fail) ==
    LET req == [kind |-> "create_amenity", building_id |-> building_id,
                type |-> type, floor |-> floor, notes |-> notes]
        row == [amenityid |-> seq.amenity + 1, buildingid |-> building_id,
                type |-> type, floor |-> floor, notes |-> notes]
    IN  /\ pc[c] = "idle"
        /\ UNCHANGED <<address, building, tag, amenitytag, user, review, now,
                       hist>>
        /\ IF fail
           THEN /\ Return(c, "create_amenity", req,
                       Response("create_amenity", 400, "OperationalError",
                                0, 0, <<>>))
                /\ UNCHANGED <<amenity, seq>>
           ELSE /\ seq.amenity < MaxTime + Cardinality(CatalogueAmenity)
                /\ seq' = [seq EXCEPT !.amenity = @ + 1]
                /\ IF AmenityForeignKeyViolation(building_id)
                   THEN /\ Return(c, "create_amenity", req,
                               Response("create_amenity", 400,
                                        "ForeignKeyViolation", 0, 0, <<>>))
                        /\ UNCHANGED amenity
                   ELSE /\ amenity' = amenity \cup {row}
                        /\ Return(c, "create_amenity", req,
                               Response("create_amenity", 200, "",
                                        row.amenityid, 0, <<row>>))

\* ------------------------------------------- PUT /amenities/{amenity_id}
\* AmenityUpdate: `payload.given` are the fields that are not None.
update_amenity(c, amenity_id, payload, fail) ==
    LET req == [kind |-> "update_amenity", amenity_id |-> amenity_id,
                payload |-> payload]
        found == {a \in amenity : a.amenityid = amenity_id}
        Answer(status, class, rows) ==
            Return(c, "update_amenity", req,
                   Response("update_amenity", status, class,
                            IF status = 200 THEN amenity_id ELSE 0, 0, rows))
    IN  /\ pc[c] = "idle"
        /\ UNCHANGED <<address, building, tag, amenitytag, user, review, seq,
                       now, hist>>
        /\ IF payload.given = {}
           THEN \* "No fields provided to update"
                Answer(400, "", <<>>) /\ UNCHANGED amenity
           ELSE IF fail
           THEN Answer(400, "OperationalError", <<>>) /\ UNCHANGED amenity
           ELSE IF found = {}
           THEN \* no row returned: rollback, 404
                Answer(404, "", <<>>) /\ UNCHANGED amenity
           ELSE IF /\ "building_id" \in payload.given
                   /\ AmenityForeignKeyViolation(payload.building_id)
           THEN Answer(400, "ForeignKeyViolation", <<>>) /\ UNCHANGED amenity
           ELSE LET old == CHOOSE a \in found : TRUE
                    new == [old EXCEPT
                              !.buildingid =
                                  IF "building_id" \in payload.given
                                  THEN payload.building_id ELSE @,
                              !.type = IF "type" \in payload.given
                                       THEN payload.type ELSE @,
                              !.floor = IF "floor" \in payload.given
                                        THEN payload.floor ELSE @,
                              !.notes = IF "notes" \in payload.given
                                        THEN payload.notes ELSE @]
                IN  /\ amenity' = (amenity \ found) \cup {new}
                    /\ Answer(200, "", <<new>>)

\* ------------------------------------- POST /amenities/{amenity_id}/tags
\* AmenityTag.amenityid references Amenity.
AmenityTagAmenityViolation(a) == \A x \in amenity : x.amenityid # a

\* A handler whose INSERT has no ON CONFLICT clause: the pair that is there
\* violates the key.
attach_tag_plain_insert(c, amenity_id, tag_id, fail) ==
    LET req == [kind |-> "attach_tag_to_amenity", amenity_id |-> amenity_id,
                tag_id |-> tag_id]
        row == [amenityid |-> amenity_id, tagid |-> tag_id]
        Answer(status, class, rows) ==
            Return(c, "attach_tag_to_amenity", req,
                   Response("attach_tag_to_amenity", status, class, 0, 0,
                            rows))
    IN  /\ pc[c] = "idle"
        /\ UNCHANGED <<address, building, amenity, tag, user, review, seq,
                       now, hist>>
        /\ IF fail
           THEN Answer(400, "OperationalError", <<>>) /\ UNCHANGED amenitytag
           ELSE IF AmenityTagConflict(c, amenity_id, tag_id)
           THEN Answer(400, "UniqueViolation", <<>>) /\ UNCHANGED amenitytag
           ELSE IF \/ AmenityTagAmenityViolation(amenity_id)
                   \/ AmenityTagForeignKeyViolation(tag_id)
           THEN Answer(400, "ForeignKeyViolation", <<>>)
                /\ UNCHANGED amenitytag
           ELSE /\ amenitytag' = amenitytag \cup {row}
                /\ Answer(200, "attached", <<row>>)

\* INSERT INTO amenitytag ... ON CONFLICT (amenityid, tagid) DO NOTHING
\* RETURNING amenityid, tagid; conn.commit(); without a returned row the
\* answer is the message "Tag already attached to amenity" (`fail`: the
\* store raises).
attach_tag_to_amenity(c, amenity_id, tag_id, fail) ==
    LET req == [kind |-> "attach_tag_to_amenity", amenity_id |-> amenity_id,
                tag_id |-> tag_id]
        row == [amenityid |-> amenity_id, tagid |-> tag_id]
        Answer(status, class, rows) ==
            Return(c, "attach_tag_to_amenity", req,
                   Response("attach_tag_to_amenity", status, class, 0, 0,
                            rows))
    IN  /\ pc[c] = "idle"
        /\ UNCHANGED <<address, building, amenity, tag, user, review, seq,
                       now, hist>>
        /\ IF fail
           THEN Answer(400, "OperationalError", <<>>) /\ UNCHANGED amenitytag
           ELSE IF AmenityTagConflict(c, amenity_id, tag_id)
           THEN Answer(200, "already attached", <<>>) /\ UNCHANGED amenitytag
           ELSE IF \/ AmenityTagAmenityViolation(amenity_id)
                   \/ AmenityTagForeignKeyViolation(tag_id)
           THEN Answer(400, "ForeignKeyViolation", <<>>)
                /\ UNCHANGED amenitytag
           ELSE /\ amenitytag' = amenitytag \cup {row}
                /\ Answer(200, "attached", <<row>>)

\* --------------------------- DELETE /amenities/{amenity_id}/tags/{tag_id}
\* DELETE FROM amenitytag ... RETURNING; no row: rollback, 404.  The handler
\* has no except clause (`fail`: the store raises, answered with 500).
detach_tag_from_amenity(c, amenity_id, tag_id, fail) ==
    LET req == [kind |-> "detach_tag_from_amenity", amenity_id |-> amenity_id,
                tag_id |-> tag_id]
        row == [amenityid |-> amenity_id, tagid |-> tag_id]
        Answer(status, class) ==
            Return(c, "detach_tag_from_amenity", req,
                   Response("detach_tag_from_amenity", status, class,
                            IF status = 200 THEN amenity_id ELSE 0,
                            IF status = 200 THEN tag_id ELSE 0, <<>>))
    IN  /\ pc[c] = "idle"
        /\ UNCHANGED <<address, building, amenity, tag, user, review, seq,
                       now, hist>>
        /\ IF fail
           THEN Answer(500, "OperationalError") /\ UNCHANGED amenitytag
           ELSE IF row \notin amenitytag
           THEN Answer(404, "") /\ UNCHANGED amenitytag
           ELSE /\ amenitytag' = amenitytag \ {row}
                /\ Answer(200, "")

\* ------------------------------------------------------------ the readers
\* GET /buildings/{building_id}: the building joined to its address.
get_building(c, building_id) ==
    LET rows == {[buildingid |-> b.buildingid, name |-> b.name,
                  address |-> ad.address, lat |-> ad.lat, lon |-> ad.lon] :
                    <<b, ad>> \in {x \in building \X address :
                        /\ x[1].addressid = x[2].addressid
                        /\ x[1].buildingid = building_id}}
        req == [kind |-> "get_building", building_id |-> building_id]
    IN  /\ pc[c] = "idle"
        /\ IF rows = {}
           THEN Return(c, "get_building", req,
                       Response("get_building", 404, "", 0, 0, <<>>))
           ELSE \E row \in rows :
                    Return(c, "get_building", req,
                           Response("get_building", 200, "", building_id, 0,
                                    <<row>>))
        /\ UNCHANGED <<tables, review, seq, now, hist>>

\* GET /amenities/{amenity_id}: the amenity joined to its building and
\* address.
get_amenity(c, amenity_id) ==
    LET rows == {[amenityid |-> x[1].amenityid,
                  buildingid |-> x[1].buildingid, type |-> x[1].type,
                  floor |-> x[1].floor, notes |-> x[1].notes,
                  building_name |-> x[2].name, address |-> x[3].address,
                  lat |-> x[3].lat, lon |-> x[3].lon] :
                    x \in {y \in amenity \X building \X address :
                        /\ y[1].buildingid = y[2].buildingid
                        /\ y[2].addressid = y[3].addressid
                        /\ y[1].amenityid = amenity_id}}
        req == [kind |-> "get_amenity", amenity_id |-> amenity_id]
    IN  /\ pc[c] = "idle"
        /\ IF rows = {}
           THEN Return(c, "get_amenity", req,
                       Response("get_amenity", 404, "", 0, 0, <<>>))
           ELSE \E row \in rows :
                    Return(c, "get_amenity", req,
                           Response("get_amenity", 200, "", amenity_id, 0,
                                    <<row>>))
        /\ UNCHANGED <<tables, review, seq, now, hist>>

\* ------------------------------------------------------------------ text
\* A text is a sequence of characters.
Lower(ch) ==
    CASE ch = "A" -> "a"
      [] ch = "B" -> "b"
      [] OTHER -> ch
LowerText(s) == [i \in 1 .. Len(s) |-> Lower(s[i])]
IsSpace(ch) == ch = " "

\* A keyword that is sent to the store untrimmed.
NoStrip(s) == s

RECURSIVE LStrip(_)
LStrip(s) == IF s # <<>> /\ IsSpace(Head(s)) THEN LStrip(Tail(s)) ELSE s
RECURSIVE RStrip(_)
RStrip(s) ==
    IF s # <<>> /\ IsSpace(s[Len(s)])
    THEN RStrip(SubSeq(s, 1, Len(s) - 1))
    ELSE s
\* str.strip()
Strip(s) == RStrip(LStrip(s))

\* text LIKE pattern: "%" matches any run of characters, "_" any one.
RECURSIVE Like(_, _)
Like(s, p) ==
    IF p = <<>> THEN s = <<>>
    ELSE IF Head(p) = "%"
         THEN \E k \in 0 .. Len(s) : Like(SubSeq(s, k + 1, Len(s)), Tail(p))
         ELSE /\ s # <<>>
              /\ Head(p) = "_" \/ Head(p) = Head(s)
              /\ Like(Tail(s), Tail(p))
\* text ILIKE pattern; NULL ILIKE pattern is not true.
ILike(s, p) == s # Null /\ Like(LowerText(s), LowerText(p))

\* ---------------------------------------------------------- GET /amenities
RECURSIVE SumRatings(_)
SumRatings(R) ==
    IF R = {} THEN 0
    ELSE LET x == CHOOSE y \in R : TRUE
         IN  x.overallrating + SumRatings(R \ {x})

\* COALESCE(AVG(r.overallrating), 0), as the fraction num / den.
AvgRating(R) ==
    IF R = {} THEN [num |-> 0, den |-> 1]
    ELSE [num |-> SumRatings(R), den |-> Cardinality(R)]

\* COUNT(*) over the LEFT JOIN: the row of an amenity without reviews counts.
CountStar(R) == IF R = {} THEN 1 ELSE Cardinality(R)

\* COUNT(r.reviewid) over the reviews joined to the amenity.
ReviewCount(R) == Cardinality(R)

\* amenity JOIN building JOIN address JOIN review: the amenities without a
\* review have no row.
ListingInnerJoined ==
    {<<a, b, ad>> \in amenity \X building \X address :
        /\ a.buildingid = b.buildingid
        /\ b.addressid = ad.addressid
        /\ \E r \in review : r.amenityid = a.amenityid}

\* amenity a JOIN building b JOIN address ad LEFT JOIN review r: every amenity
\* has a row, with the reviews it has (taken per amenity in ListingRows).
ListingJoined ==
    {<<a, b, ad>> \in amenity \X building \X address :
        /\ a.buildingid = b.buildingid
        /\ b.addressid = ad.addressid}

\* `if keyword:`: None and the empty string are falsy.
Truthy(text) == text # None /\ text # <<>>

\* The WHERE clause: the clauses of the parameters that are given, joined by
\* AND.  An amenity_type that is not sent, or is empty, is "".
ListingMatching(keyword, amenity_type) ==
    LET kw == <<"%">> \o Strip(keyword) \o <<"%">>
    IN  {j \in ListingJoined :
            /\ amenity_type # "" => j[1].type = amenity_type
            /\ Truthy(keyword) =>
                  \/ ILike(j[2].name, kw)
                  \/ ILike(j[3].address, kw)
                  \/ ILike(j[1].notes, kw)}

\* SELECT ... GROUP BY a.amenityid, ...: a row for each amenity of the join.
ListingRows(keyword, amenity_type) ==
    LET Matching == ListingMatching(keyword, amenity_type)
    IN  {[amenityid |-> j[1].amenityid,
          buildingid |-> j[1].buildingid,
          type |-> j[1].type,
          floor |-> j[1].floor,
          notes |-> j[1].notes,
          building_name |-> j[2].name,
          address |-> j[3].address,
          lat |-> j[3].lat,
          lon |-> j[3].lon,
          avg_rating |->
              AvgRating({r \in review : r.amenityid = j[1].amenityid}),
          review_count |->
              ReviewCount({r \in review : r.amenityid = j[1].amenityid})] :
         j \in Matching}

\* ORDER BY avg_rating DESC, review_count DESC, a.amenityid DESC
ListingBeforeIdDesc(x, y) ==
    LET l == x.avg_rating.num * y.avg_rating.den
        r == y.avg_rating.num * x.avg_rating.den
    IN  \/ l > r
        \/ l = r /\ x.review_count > y.review_count
        \/ l = r /\ x.review_count = y.review_count
                 /\ x.amenityid > y.amenityid

\* ORDER BY avg_rating DESC, review_count DESC, a.amenityid ASC
ListingBefore(x, y) ==
    LET l == x.avg_rating.num * y.avg_rating.den
        r == y.avg_rating.num * x.avg_rating.den
    IN  \/ l > r
        \/ l = r /\ x.review_count > y.review_count
        \/ l = r /\ x.review_count = y.review_count
                 /\ x.amenityid < y.amenityid

RECURSIVE OrderListing(_)
OrderListing(S) ==
    IF S = {} THEN <<>>
    ELSE LET first == CHOOSE x \in S :
                          \A y \in S \ {x} : ~ListingBefore(y, x)
         IN  <<first>> \o OrderListing(S \ {first})

\* LIMIT limit, then OFFSET offset within the rows the limit has kept.
LimitThenOffset(rows, limit, offset) ==
    SubSeq(rows, offset + 1, IF limit < Len(rows) THEN limit ELSE Len(rows))

\* LIMIT limit OFFSET offset
LimitOffset(rows, limit, offset) ==
    SubSeq(rows, offset + 1,
           IF offset + limit < Len(rows) THEN offset + limit ELSE Len(rows))

ListAmenitiesQuery(keyword, amenity_type, limit, offset) ==
    LimitOffset(OrderListing(ListingRows(keyword, amenity_type)), limit, offset)

list_amenities(c, keyword, amenity_type, limit, offset) ==
    LET req == [kind |-> "list_amenities", keyword |-> keyword,
                amenity_type |-> amenity_type, limit |-> limit,
                offset |-> offset]
    IN  /\ pc[c] = "idle"
        /\ IF limit < ListLimitMin \/ limit > ListLimitMax \/ offset < 0
           THEN Return(c, "list_amenities", req,
                       Response("list_amenities", 422, "", 0, 0, <<>>))
           ELSE Return(c, "list_amenities", req,
                       Response("list_amenities", 200, "", 0, 0,
                           ListAmenitiesQuery(keyword, amenity_type, limit,
                                              offset)))
        /\ UNCHANGED <<tables, review, seq, now>>

\* ------------------------------------------------------ the leaderboards
\* ROUND(CAST(AVG(R.OverallRating) AS NUMERIC), 2) of n ratings whose sum is
\* `sum`: hundredths of a star, a half rounded up.
Round2(sum, n) == (2 * sum + 10 * n) \div (20 * n)

\* The sum of OverallRating over the rows of a join.
RECURSIVE SumJoined(_)
SumJoined(J) ==
    IF J = {} THEN 0
    ELSE LET j == CHOOSE x \in J : TRUE
         IN  j.r.overallrating + SumJoined(J \ {j})

\* Lexicographic order of two sort keys of the same length.
RECURSIVE KeyBefore(_, _)
KeyBefore(k, l) ==
    /\ k # <<>>
    /\ \/ Head(k) < Head(l)
       \/ Head(k) = Head(l) /\ KeyBefore(Tail(k), Tail(l))

\* ORDER BY: every sequence of the rows S, whose sort keys are key[row], in
\* which no row comes after a row with a greater sort key; rows with equal
\* keys come in any order.
RECURSIVE Orderings(_, _)
Orderings(S, key) ==
    IF S = {} THEN {<<>>}
    ELSE UNION {{<<m>> \o t : t \in Orderings(S \ {m}, key)} :
                m \in {x \in S : \A y \in S : ~KeyBefore(key[y], key[x])}}

\* LIMIT 15
Top(rows) ==
    SubSeq(rows, 1, IF Len(rows) < LeaderboardLimit THEN Len(rows)
                                                     ELSE LeaderboardLimit)

\* Building JOIN Amenity LEFT JOIN Review: an amenity without reviews gives
\* one row, its review columns NULL.
OverallLeftJoined ==
    UNION {UNION {{[b |-> b, a |-> a, r |-> r] :
                     r \in IF \E x \in review : x.amenityid = a.amenityid
                           THEN {x \in review : x.amenityid = a.amenityid}
                           ELSE {NoRow}} :
                  a \in {x \in amenity : x.buildingid = b.buildingid}} :
           b \in building}

\* Building JOIN Amenity JOIN Review
OverallJoined ==
    UNION {UNION {{[b |-> b, a |-> a, r |-> r] :
                     r \in {x \in review : x.amenityid = a.amenityid}} :
                  a \in {x \in amenity : x.buildingid = b.buildingid}} :
           b \in building}

\* GROUP BY B.Name, A.Type, A.Floor
OverallRows ==
    {LET G == {j \in OverallJoined :
                 <<j.b.name, j.a.type, j.a.floor>> = k}
     IN  [building_name |-> k[1], type |-> k[2], floor |-> k[3],
          avg_rating |-> Round2(SumJoined(G), Cardinality(G)),
          review_count |-> Cardinality(G)] :
     k \in {<<j.b.name, j.a.type, j.a.floor>> : j \in OverallJoined}}

\* ORDER BY Avg_Rating DESC, Review_Count DESC: Avg_Rating names the output
\* column, the rounded average.
OverallKey(row) == <<0 - row.avg_rating, 0 - row.review_count>>

\* GET /leaderboard/overall-amenities (`fail`: the store raises).
leaderboard_overall_amenities(c, fail) ==
    /\ pc[c] = "idle"
    /\ IF fail
       THEN Return(c, "leaderboard_overall_amenities", NoOp,
                   Response("leaderboard_overall_amenities", 400,
                            "OperationalError", 0, 0, <<>>))
       ELSE \E rows \in Orderings(OverallRows,
                                  [x \in OverallRows |-> OverallKey(x)]) :
                Return(c, "leaderboard_overall_amenities", NoOp,
                       Response("leaderboard_overall_amenities", 200, "", 0, 0,
                                Top(rows)))
    /\ UNCHANGED <<tables, review, seq, now, hist>>

\* COUNT(AT.TagId) taken in the outer query, over the join with Review: every
\* review of the amenity repeats its tag rows.
ColdTagCountPerReview(a) ==
    Cardinality({x \in amenitytag \X tag :
                    /\ x[1].amenityid = a.amenityid
                    /\ x[1].tagid = x[2].tagid
                    /\ x[2].label = "ColdWater"})
        * Cardinality({r \in review : r.amenityid = a.amenityid})

\* The subquery CT: COUNT(AT.TagId) over Amenity JOIN AmenityTag JOIN Tag
\* WHERE Label = 'ColdWater', for the amenity a.
ColdTagCount(a) ==
    Cardinality({x \in amenitytag \X tag :
                    /\ x[1].amenityid = a.amenityid
                    /\ x[1].tagid = x[2].tagid
                    /\ x[2].label = "ColdWater"})

\* Building JOIN Amenity JOIN Review JOIN CT; CT has a row for the
\* WaterFountain amenities with a ColdWater tag.
ColdJoined ==
    {j \in OverallJoined :
        j.a.type = "WaterFountain" /\ ColdTagCount(j.a) > 0}

\* GROUP BY B.Name, A.Floor, A.Notes, CT.Cold_Tag_Count
ColdRows ==
    {LET G == {j \in ColdJoined :
                 <<j.b.name, j.a.floor, j.a.notes, ColdTagCount(j.a)>> = k}
     IN  [building_name |-> k[1], floor |-> k[2], notes |-> k[3],
          avg_rating |-> Round2(SumJoined(G), Cardinality(G)),
          cold_tag_count |-> k[4]] :
     k \in {<<j.b.name, j.a.floor, j.a.notes, ColdTagCount(j.a)>> :
                j \in ColdJoined}}

\* ORDER BY CT.Cold_Tag_Count DESC, Avg_Rating DESC
ColdKey(row) == <<0 - row.cold_tag_count, 0 - row.avg_rating>>

\* GET /leaderboard/coldest-fountains (`fail`: the store raises).
leaderboard_coldest_fountains(c, fail) ==
    /\ pc[c] = "idle"
    /\ IF fail
       THEN Return(c, "leaderboard_coldest_fountains", NoOp,
                   Response("leaderboard_coldest_fountains", 400,
                            "OperationalError", 0, 0, <<>>))
       ELSE \E rows \in Orderings(ColdRows,
                                  [x \in ColdRows |-> ColdKey(x)]) :
                Return(c, "leaderboard_coldest_fountains", NoOp,
                       Response("leaderboard_coldest_fountains", 200, "", 0, 0,
                                Top(rows)))
    /\ UNCHANGED <<tables, review, seq, now, hist>>

\* Building JOIN Amenity A JOIN Review JOIN Address JOIN Amenity A2 (the
\* VendingMachine amenities of the building) WHERE A.Type = 'Bathroom'
CleanJoined ==
    UNION {{[b |-> j.b, a |-> j.a, r |-> j.r, ad |-> x[1], a2 |-> x[2]] :
              x \in {y \in address \X amenity :
                        /\ y[1].addressid = j.b.addressid
                        /\ y[2].buildingid = j.b.buildingid
                        /\ y[2].type = "VendingMachine"}} :
           j \in {i \in OverallJoined : i.a.type = "Bathroom"}}

\* GROUP BY B.Name, A.Type, A_D.Address
CleanRows ==
    {LET G == {j \in CleanJoined :
                 <<j.b.name, j.a.type, j.ad.address>> = k}
     IN  [building_name |-> k[1], amenity_type |-> k[2],
          avg_bathroom_rating |-> Round2(SumJoined(G), Cardinality(G)),
          address |-> k[3]] :
     k \in {<<j.b.name, j.a.type, j.ad.address>> : j \in CleanJoined}}

\* ORDER BY Avg_Bathroom_Rating DESC
CleanKey(row) == <<0 - row.avg_bathroom_rating>>

\* GET /leaderboard/clean-bathrooms-vending (`fail`: the store raises).
leaderboard_clean_bathrooms_vending(c, fail) ==
    /\ pc[c] = "idle"
    /\ IF fail
       THEN Return(c, "leaderboard_clean_bathrooms_vending", NoOp,
                   Response("leaderboard_clean_bathrooms_vending", 400,
                            "OperationalError", 0, 0, <<>>))
       ELSE \E rows \in Orderings(CleanRows,
                                  [x \in CleanRows |-> CleanKey(x)]) :
                Return(c, "leaderboard_clean_bathrooms_vending", NoOp,
                       Response("leaderboard_clean_bathrooms_vending", 200, "",
                                0, 0, Top(rows)))
    /\ UNCHANGED <<tables, review, seq, now, hist>>

\* -------------------------------------- GET /amenities/{amenity_id}/reviews
\* ORDER BY timestamp ASC
ReviewsKeyAscending(row) == <<row.timestamp>>

\* ORDER BY timestamp DESC
ReviewsKey(row) == <<0 - row.timestamp>>

\* SELECT ... FROM review WHERE amenityid = %s ORDER BY timestamp DESC.  The
\* handler has no except clause (`fail`: the store raises, and the exception
\* is answered with 500).
get_reviews_for_amenity(c, amenity_id, fail) ==
    LET req == [kind |-> "get_reviews_for_amenity", amenity_id |-> amenity_id]
        R == {r \in review : r.amenityid = amenity_id}
    IN  /\ pc[c] = "idle"
        /\ IF fail
           THEN Return(c, "get_reviews_for_amenity", req,
                       Response("get_reviews_for_amenity", 500,
                                "OperationalError", 0, 0, <<>>))
           ELSE \E rows \in Orderings(R, [x \in R |-> ReviewsKey(x)]) :
                    Return(c, "get_reviews_for_amenity", req,
                           Response("get_reviews_for_amenity", 200, "",
                                    amenity_id, 0, rows))
        /\ UNCHANGED <<tables, review, seq, now, hist>>

\* ------------------------------------------------- the review lifecycle
\* The catalogue the reviews refer to: one building at one address, with its
\* amenities.
InitClients ==
    /\ pc = [c \in Clients |-> "idle"]
    /\ op = [c \in Clients |-> NoOp]
    /\ conn = [c \in Clients |-> "closed"]
    /\ pending = [c \in Clients |-> NoPending]
    /\ last = Step("Init", 0, NoResult)
    /\ hist = [c \in Clients |-> NoOp]

Init ==
    /\ address = CatalogueAddress
    /\ building = CatalogueBuilding
    /\ amenity = CatalogueAmenity
    /\ tag = CatalogueTag
    /\ amenitytag = {}
    /\ user = CatalogueUserRows
    /\ review \in {{}, {SeedReview}}
    /\ seq = [address |-> Cardinality(CatalogueAddress),
              building |-> Cardinality(CatalogueBuilding),
              amenity |-> Cardinality(CatalogueAmenityIds),
              review |-> SeedReview.reviewid]
    /\ now = 0
    /\ InitClients

\* The requests of clients C on users U, amenities A and review ids I,
\* with the bodies B; F says whether the store may raise at a statement.
ReviewCalls(C, U, A, B, I, F) ==
    \E c \in C :
        \/ \E u \in U, a \in A, b \in B :
                \/ create_review_execute(c, u, a, b[1], b[2])
                \/ upsert_review_execute(c, u, a, b[1], b[2])
        \/ \E id \in I, b \in B :
                \/ update_review_execute(c, id, TRUE, b[1], TRUE, b[2])
                \/ update_review_execute(c, id, TRUE, b[1], FALSE, "")
                \/ update_review_execute(c, id, FALSE, 0, TRUE, b[2])
                \/ update_review_execute(c, id, FALSE, 0, FALSE, "")
        \/ \E id \in I, fail \in F : delete_review_execute(c, id, fail)
        \/ create_review_commit(c)
        \/ update_review_commit(c)
        \/ delete_review_commit(c)
        \/ upsert_review_commit(c)

ListCalls(C) ==
    \E c \in C, limit \in {0, ListLimitDefault}, keyword \in {<<>>, <<"z">>},
       amenity_type \in {"", "Bathroom"} :
        list_amenities(c, keyword, amenity_type, limit, 0)

Next ==
    /\ ReviewCalls(Clients, {1}, CatalogueAmenityIds, ValidBodies, ReviewIds,
                   {FALSE})
    /\ UNCHANGED hist

Spec == Init /\ [][Next]_vars

\* One client at a time, on every kind of input: ids that reference no row
\* (0), a rating out of range, and the listing after the writes.
NextSequential ==
    /\ \/ ReviewCalls({1}, {0} \cup CatalogueUsers, {0} \cup CatalogueAmenityIds,
                      ReviewBodies, ReviewIds, BOOLEAN)
       \/ ListCalls({1})
    /\ UNCHANGED hist

SpecSequential == Init /\ [][NextSequential]_vars

\* ------------------------------------------- two upserts of the same pair
\* Each client sends one upsert_review; both are for the same pair, one the
\* store holds no review of.  hist[c] follows the call of client c: "issued"
\* (the request is sent; the store has not run its statement, which may be
\* waiting for a lock), "started" (the statement has run), "done" (the handler
\* has committed and returned).  `overlap` says the other client's call was in
\* progress when this one was issued.
RaceCall(u, a, r, d, overlap) ==
    [kind |-> "issued", user_id |-> u, amenity_id |-> a, overall_rating |-> r,
     rating_details |-> d, overlap |-> overlap, path |-> ""]

RaceClients == {1, 2}

RaceIssue(c, u, a, r, d) ==
    /\ hist[c].kind = "none"
    /\ ReviewsOfPair(u, a) = {}
    /\ \A e \in RaceClients \ {c} :
          hist[e].kind # "none" => hist[e].user_id = u /\ hist[e].amenity_id = a
    /\ hist' = [hist EXCEPT ![c] =
                  RaceCall(u, a, r, d,
                      \E e \in RaceClients \ {c} :
                          hist[e].kind \in {"issued", "started"})]
    /\ UNCHANGED <<tables, review, seq, now, pc, op, conn, pending, last>>

RaceExecute(c) ==
    /\ hist[c].kind = "issued"
    /\ upsert_review_execute(c, hist[c].user_id, hist[c].amenity_id,
                             hist[c].overall_rating, hist[c].rating_details)
    /\ hist' = [hist EXCEPT ![c].kind = "started"]

RaceCommit(c) ==
    /\ hist[c].kind = "started"
    /\ upsert_review_commit(c)
    /\ hist' = [hist EXCEPT ![c].kind = "done", ![c].path = pending[c].kind]

NextRace ==
    \E c \in RaceClients :
        \/ \E u \in CatalogueUsers, a \in CatalogueAmenityIds, b \in ValidBodies :
                RaceIssue(c, u, a, b[1], b[2])
        \/ RaceExecute(c)
        \/ RaceCommit(c)

SpecRace == Init /\ [][NextRace]_vars

\* --------------------------------------------- the same upsert, twice
\* A client sends one upsert_review and, when it has returned, the same
\* request again.  hist[c] follows the two calls: "first" and "second" while
\* a call is in progress, "once" and "twice" when it has returned; `after`
\* is the Review table as the first call left it.
RepeatCall(kind, u, a, r, d, after) ==
    [kind |-> kind, user_id |-> u, amenity_id |-> a, overall_rating |-> r,
     rating_details |-> d, after |-> after]

RepeatExecute(c, u, a, r, d) ==
    /\ hist[c].kind \in {"none", "once"}
    /\ hist[c].kind = "once" =>
            /\ hist[c].user_id = u
            /\ hist[c].amenity_id = a
            /\ hist[c].overall_rating = r
            /\ hist[c].rating_details = d
    /\ upsert_review_execute(c, u, a, r, d)
    /\ hist' = [hist EXCEPT ![c] =
                  IF hist[c].kind = "none"
                  THEN RepeatCall(IF pc'[c] = "idle" THEN "once" ELSE "first",
                                  u, a, r, d, review)
                  ELSE [hist[c] EXCEPT !.kind = IF pc'[c] = "idle"
                                                THEN "twice" ELSE "second"]]

RepeatCommit(c) ==
    /\ hist[c].kind \in {"first", "second"}
    /\ upsert_review_commit(c)
    /\ hist' = [hist EXCEPT ![c] =
                  IF hist[c].kind = "first"
                  THEN [hist[c] EXCEPT !.kind = "once", !.after = review']
                  ELSE [hist[c] EXCEPT !.kind = "twice"]]

NextRepeat ==
    \E c \in {1} :
        \/ \E u \in {0} \cup CatalogueUsers, a \in {0} \cup CatalogueAmenityIds,
              b \in ReviewBodies :
                RepeatExecute(c, u, a, b[1], b[2])
        \/ RepeatCommit(c)

SpecRepeat == Init /\ [][NextRepeat]_vars

\* ------------------------------------------------ leaderboard stores
\* The leaderboards are read on stores of two shapes.  The small one has two
\* buildings, which may share name and address; building 1 has two bathrooms
\* on one floor, a fountain and one or two vending machines, building 2 a
\* bathroom and possibly a vending machine; the fountain may be tagged
\* ColdWater; an amenity has no review, one, or two that average just below
\* the one.  The wide one has more buildings than a leaderboard has rows,
\* each with a reviewed bathroom, a reviewed ColdWater fountain and a vending
\* machine without reviews.
Letters == <<"a", "b", "c", "d", "e", "f", "g", "h", "i", "j", "k", "l", "m",
             "n", "o", "p">>
WideIds == 1 .. LeaderboardLimit + 1

Amenity(id, b, type, floor) ==
    [amenityid |-> id, buildingid |-> b, type |-> type, floor |-> floor,
     notes |-> Null]

ReviewOptions(a) ==
    {{},
     {ReviewRow(10 * a + 1, 1, a, 4334, "d1", 0)},
     {ReviewRow(10 * a + 1, 1, a, 4333, "d1", 0),
      ReviewRow(10 * a + 2, 2, a, 4333, "d1", 0)}}

SmallStore ==
    /\ address = {[addressid |-> i, address |-> <<Letters[i]>>, lat |-> 40,
                   lon |-> -88] : i \in {1, 2}}
    /\ \E b2 \in {[buildingid |-> 2, name |-> <<"B">>, addressid |-> 2],
                  [buildingid |-> 2, name |-> <<"A">>, addressid |-> 1]} :
          building = {[buildingid |-> 1, name |-> <<"A">>, addressid |-> 1],
                      b2}
    /\ \E more \in SUBSET {Amenity(5, 1, "VendingMachine", "2"),
                           Amenity(7, 2, "VendingMachine", "1")} :
          amenity = more \cup {Amenity(1, 1, "Bathroom", "1"),
                               Amenity(2, 1, "Bathroom", "1"),
                               Amenity(3, 1, "WaterFountain", "1"),
                               Amenity(4, 1, "VendingMachine", "1"),
                               Amenity(6, 2, "Bathroom", "1")}
    /\ amenitytag \in {{}, {[amenityid |-> 3, tagid |-> 2]}}
    /\ \E r1 \in ReviewOptions(1), r2 \in ReviewOptions(2),
          r3 \in ReviewOptions(3), r6 \in ReviewOptions(6),
          r4 \in {{}, {ReviewRow(41, 1, 4, 2000, "d1", 0)}} :
          review = r1 \cup r2 \cup r3 \cup r6 \cup r4

WideStore ==
    /\ address = {[addressid |-> i, address |-> <<Letters[i]>>, lat |-> 40,
                   lon |-> -88] : i \in WideIds}
    /\ building = {[buildingid |-> i, name |-> <<Letters[i]>>,
                    addressid |-> i] : i \in WideIds}
    /\ amenity = UNION {{Amenity(3 * i, i, "Bathroom", "1"),
                         Amenity(3 * i + 1, i, "WaterFountain", "1"),
                         Amenity(3 * i + 2, i, "VendingMachine", "1")} :
                        i \in WideIds}
    /\ amenitytag = {[amenityid |-> 3 * i + 1, tagid |-> 2] : i \in WideIds}
    /\ review = UNION {{ReviewRow(2 * i, 1, 3 * i, 1000 + 100 * i, "d1", 0),
                        ReviewRow(2 * i + 1, 1, 3 * i + 1, 3000 + 100 * i,
                                  "d1", 0)} : i \in WideIds}

InitLeaderboard ==
    /\ SmallStore \/ WideStore
    /\ tag = CatalogueTag
    /\ user = CatalogueUserRows
    /\ seq = [address |-> 0, building |-> 0, amenity |-> 0, review |-> 0]
    /\ now = 0
    /\ InitClients

NextLeaderboard ==
    \E c \in {1}, fail \in BOOLEAN :
        \/ leaderboard_overall_amenities(c, fail)
        \/ leaderboard_coldest_fountains(c, fail)
        \/ leaderboard_clean_bathrooms_vending(c, fail)

SpecLeaderboard == InitLeaderboard /\ [][NextLeaderboard]_vars

\* ------------------------------------------- reviews by their identifier
\* One client updates, deletes and reads the reviews of a store that holds
\* any of: a review of amenity 1 by user 1, one by user 2, written at the
\* same time or later, and a review of amenity 2.
StoredReviews ==
    {S \cup T \cup U :
        S \in SUBSET {ReviewRow(1, 1, 1, 2000, "d1", 0)},
        T \in {{}, {ReviewRow(2, 2, 1, 4500, "d2", 0)},
               {ReviewRow(2, 2, 1, 4500, "d2", 1)}},
        U \in SUBSET {ReviewRow(3, 1, 2, 4000, "d1", 1)}}

InitReviews ==
    /\ address = CatalogueAddress
    /\ building = CatalogueBuilding
    /\ amenity = CatalogueAmenity
    /\ tag = CatalogueTag
    /\ amenitytag = {}
    /\ user = CatalogueUserRows
    /\ review \in StoredReviews
    /\ seq = [address |-> Cardinality(CatalogueAddress),
              building |-> Cardinality(CatalogueBuilding),
              amenity |-> Cardinality(CatalogueAmenityIds),
              review |-> Cardinality(UNION StoredReviews)]
    /\ now = 0
    /\ InitClients

NextReviews ==
    /\ \E c \in {1} :
          \/ \E id \in ReviewIds, b \in ValidBodies :
                \/ update_review_execute(c, id, TRUE, b[1], TRUE, b[2])
                \/ update_review_execute(c, id, TRUE, b[1], FALSE, "")
                \/ update_review_execute(c, id, FALSE, 0, TRUE, b[2])
                \/ update_review_execute(c, id, FALSE, 0, FALSE, "")
          \/ update_review_commit(c)
          \/ \E id \in ReviewIds, fail \in BOOLEAN :
                delete_review_execute(c, id, fail)
          \/ delete_review_commit(c)
          \/ \E amenity_id \in {0} \cup CatalogueAmenityIds, fail \in BOOLEAN :
                get_reviews_for_amenity(c, amenity_id, fail)
    /\ UNCHANGED hist

SpecReviews == InitReviews /\ [][NextReviews]_vars

\* ------------------------------------------------ amenities and tags
\* The types an amenity is meant to have.
AmenityTypes == {"Bathroom", "WaterFountain", "VendingMachine"}

\* The bodies of update_amenity: no field, a type, the notes, a building
\* that does not exist, a type and a floor.
NoAmenityUpdate ==
    [given |-> {}, building_id |-> 0, type |-> "", floor |-> "", notes |-> Null]
AmenityUpdates ==
    {NoAmenityUpdate,
     [NoAmenityUpdate EXCEPT !.given = {"type"}, !.type = "Sauna"],
     [NoAmenityUpdate EXCEPT !.given = {"notes"}, !.notes = <<"z">>],
     [NoAmenityUpdate EXCEPT !.given = {"building_id"}, !.building_id = 9],
     [NoAmenityUpdate EXCEPT !.given = {"type", "floor"},
                             !.type = "VendingMachine", !.floor = "2"]}

InitAmenity ==
    /\ Init
    /\ review = {}

\* One client creates and updates amenities and attaches and detaches
\* tags, on rows that exist and on ids no row has (9); any statement may
\* raise.
NextAmenity ==
    \E c \in {1}, fail \in BOOLEAN :
        \/ \E building_id \in {1, 9}, type \in {"Bathroom", "Sauna"} :
                create_amenity(c, building_id, type, "1", Null, fail)
        \/ \E amenity_id \in {1, 9}, payload \in AmenityUpdates :
                update_amenity(c, amenity_id, payload, fail)
        \/ \E amenity_id \in {1, 3, 9}, tag_id \in {1, 9} :
                attach_tag_to_amenity(c, amenity_id, tag_id, fail)
        \/ \E amenity_id \in {1, 3}, tag_id \in {1, 9} :
                detach_tag_from_amenity(c, amenity_id, tag_id, fail)
        \/ \E type \in {"Bathroom", "Sauna"}, tag_ids \in {<<1>>, <<1, 1>>} :
                create_amenity_with_tags_begin(c, 1, type, "1", Null, tag_ids,
                                               fail)
        \/ create_amenity_with_tags(c, fail)

SpecAmenity == InitAmenity /\ [][NextAmenity]_vars

\* ---------------------------------------------------- listing stores
\* The listing is read on stores with two buildings at two addresses and
\* amenities of the three types, whose notes are NULL, empty or a text; an
\* amenity of the first building has no review, one, or two.
ListingAmenities ==
    {[Amenity(1, 1, "Bathroom", "1") EXCEPT !.notes = Null],
     [Amenity(2, 1, "WaterFountain", "1") EXCEPT !.notes = <<"z">>],
     [Amenity(3, 2, "Bathroom", "2") EXCEPT !.notes = <<"a", "_">>]}

ListingStore ==
    /\ address = {[addressid |-> 1, address |-> <<"a", " ", "b">>,
                   lat |-> 40, lon |-> -88],
                  [addressid |-> 2, address |-> <<"z">>, lat |-> 40,
                   lon |-> -88]}
    /\ building = {[buildingid |-> 1, name |-> <<"A", "b">>, addressid |-> 1],
                   [buildingid |-> 2, name |-> <<"B">>, addressid |-> 2]}
    /\ \E more \in SUBSET {[Amenity(4, 2, "VendingMachine", "1")
                                EXCEPT !.notes = <<>>]} :
          amenity = ListingAmenities \cup more
    /\ amenitytag = {}
    /\ \E r1 \in {{}, {ReviewRow(1, 1, 1, 4500, "d1", 0)}},
          r2 \in {{}, {ReviewRow(2, 1, 2, 4500, "d1", 0)},
                  {ReviewRow(2, 1, 2, 2000, "d1", 0),
                   ReviewRow(3, 2, 2, 4000, "d2", 1)}} :
          review = r1 \cup r2

InitListing ==
    /\ ListingStore
    /\ tag = CatalogueTag
    /\ user = CatalogueUserRows
    /\ seq = [address |-> Cardinality(address),
              building |-> Cardinality(building),
              amenity |-> Cardinality(amenity),
              review |-> Cardinality(review)]
    /\ now = 0
    /\ InitClients

\* The keywords of the requests: not sent, empty, blank, a text in either
\* case, a text with blanks around it, and texts with the characters LIKE
\* gives a meaning to.
ListingKeywords ==
    {None, <<>>, <<" ">>, <<" ", " ">>, <<"a">>, <<"B">>, <<" ", "z", " ">>,
     <<"_">>, <<"a", "%", "b">>}

\* A run of the listing scenario is one request on one of the stores:
\* hist[c] says whether client c has sent it.
ListingCall(c, keyword, amenity_type, limit, offset) ==
    /\ hist[c] = NoOp
    /\ list_amenities(c, keyword, amenity_type, limit, offset)
    /\ hist' = [hist EXCEPT ![c] = [kind |-> "listed"]]

NextListing ==
    \E c \in {1}, keyword \in ListingKeywords,
       amenity_type \in {"", "Bathroom", "Sauna"},
       limit \in {0, 1, 2, ListLimitDefault}, offset \in {-1, 0, 1, 2, 4} :
        ListingCall(c, keyword, amenity_type, limit, offset)

SpecListing == InitListing /\ [][NextListing]_vars

\* ------------------------------------------------- the seeding script
\* scripts/seed_data.py: a batch job that fills the store over one
\* connection.  Its statements see the writes of its own open transaction
\* in place of the committed rows; commit publishes them, rollback and
\* close drop them.
MaxBuildings == 2

\* The writes of the script's open transaction, table by table.
SeedPending ==
    [address |-> {}, building |-> {}, amenity |-> {}, user |-> {},
     tag |-> {}, review |-> {}, amenitytag |-> {}]

\* The rows of table T a transaction with the writes W sees; `k` is the
\* id column.
Overlay(T, W, k) == {r \in T : \A w \in W : w[k] # r[k]} \cup W

\* A coordinate of a scraped building is <<x>>, and <<>> when it is None.
NoCoord == <<>>
\* fallback_random_coords(): a point around the campus.
fallback_random_coords == [lat |-> 40, lon |-> -88]

\* amenity_types, in the order the script inserts them.
amenity_types == <<"Bathroom", "WaterFountain", "VendingMachine">>
Digits == <<"1", "2", "3", "4">>

\* What random gives one building: num_amenities of each type, and the floor.
SeedSamples ==
    {[num_amenities |-> <<1, 1, 1>>, floor |-> "B"],
     [num_amenities |-> <<2, 1, 4>>, floor |-> "5"]}

\* The scraped buildings the script is run on: names and addresses the
\* store may hold already, with and without coordinates.
ScrapedBuildings ==
    {[name |-> <<"A", "b">>, address |-> <<"a", " ", "b">>, lat |-> <<40>>,
      lon |-> <<-88>>],
     [name |-> <<"A", "b">>, address |-> <<"d">>, lat |-> NoCoord,
      lon |-> <<-88>>],
     [name |-> <<"C">>, address |-> <<"a", " ", "b">>, lat |-> <<41>>,
      lon |-> <<-87>>],
     [name |-> <<"C">>, address |-> <<"d">>, lat |-> <<41>>, lon |-> NoCoord]}
BuildingLists ==
    UNION {[1 .. n -> ScrapedBuildings] : n \in 0 .. MaxBuildings}

\* A variant of the script that inserts every address and every building it
\* is given.
SeedInsertOnly(T, text, k) == {}

\* SELECT <id> FROM <table> WHERE <column> = text, in the transaction.
SeedLookup(T, text, k) == {r \in T : r[k] = text}

\* The amenities inserted for one building: num_amenities[t] rows of type
\* amenity_types[t], with ids from `first` on.
AmenitiesBefore(num_amenities, t) ==
    IF t = 1 THEN 0
    ELSE num_amenities[1] + (IF t = 2 THEN 0 ELSE num_amenities[2])
SampleAmenities(building_id, sample, first) ==
    {[amenityid |-> first + AmenitiesBefore(sample.num_amenities, t) + i,
      buildingid |-> building_id, type |-> amenity_types[t],
      floor |-> sample.floor,
      notes |-> <<"floor", sample.floor, "exit", Digits[i + 1]>>] :
        <<t, i>> \in {x \in (1 .. 3) \X (0 .. 3) :
                        x[2] < sample.num_amenities[x[1]]}}

\* insert_buildings_and_amenities(conn, buildings_data) is called: the cursor
\* is opened; `run` counts the calls made with this list.
insert_buildings_and_amenities_begin(c, buildings_data) ==
    /\ pc[c] = "idle"
    /\ conn[c] = "ready"
    /\ IF hist[c] = NoOp THEN TRUE
       ELSE hist[c].runs = 1 /\ hist[c].buildings_data = buildings_data
    /\ pc' = [pc EXCEPT ![c] = "for_b"]
    /\ op' = [op EXCEPT ![c] = [kind |-> "insert_buildings_and_amenities",
                                buildings_data |-> buildings_data, i |-> 1]]
    /\ last' = Step("insert_buildings_and_amenities_begin", c, NoResult)
    /\ UNCHANGED <<tables, review, seq, now, conn, pending, hist>>

\* An exception leaves the script: main() rolls back and closes the
\* connection.
SeedRaise(c, a, class) ==
    /\ pc' = [pc EXCEPT ![c] = "idle"]
    /\ op' = [op EXCEPT ![c] = NoOp]
    /\ conn' = [conn EXCEPT ![c] = "closed"]
    /\ pending' = [pending EXCEPT ![c] = SeedPending]
    /\ last' = Step(a, c, Response(a, 0, class, 0, 0, <<>>))

\* One pass of `for b in buildings_data`: the address is looked up by its
\* text and updated or inserted, the building is looked up by its name and
\* updated or inserted, and the sample amenities are inserted.
insert_buildings_and_amenities(c, sample) ==
    /\ pc[c] = "for_b"
    /\ op[c].i <= Len(op[c].buildings_data)
    /\ LET b == op[c].buildings_data[op[c].i]
           coords == IF b.lat = NoCoord \/ b.lon = NoCoord
                     THEN fallback_random_coords
                     ELSE [lat |-> b.lat[1], lon |-> b.lon[1]]
           w == pending[c]
           addresses == Overlay(address, w.address, "addressid")
           address_result == SeedLookup(addresses, b.address, "address")
           buildings == Overlay(building, w.building, "buildingid")
           building_result == SeedLookup(buildings, b.name, "name")
           num == AmenitiesBefore(sample.num_amenities, 3)
                    + sample.num_amenities[3]
       IN  \E ar \in IF address_result = {} THEN {NoOp} ELSE address_result,
              br \in IF building_result = {} THEN {NoOp} ELSE building_result :
            LET address_id == IF ar = NoOp THEN seq.address + 1
                              ELSE ar.addressid
                building_id == IF br = NoOp THEN seq.building + 1
                               ELSE br.buildingid
                arow == [addressid |-> address_id, address |-> b.address,
                         lat |-> coords.lat, lon |-> coords.lon]
                brow == [buildingid |-> building_id, name |-> b.name,
                         addressid |-> address_id]
            IN  IF ar = NoOp /\ \E x \in addresses : x.address = b.address
                THEN /\ seq' = [seq EXCEPT !.address = @ + 1]
                     /\ SeedRaise(c, "insert_buildings_and_amenities",
                                  "UniqueViolation")
                ELSE /\ seq' = [seq EXCEPT
                            !.address = IF ar = NoOp THEN @ + 1 ELSE @,
                            !.building = IF br = NoOp THEN @ + 1 ELSE @,
                            !.amenity = @ + num]
                     /\ pending' = [pending EXCEPT ![c] = [w EXCEPT
                          !.address = {x \in @ : x.addressid # address_id}
                                        \cup {arow},
                          !.building = {x \in @ : x.buildingid # building_id}
                                        \cup {brow},
                          !.amenity = @ \cup SampleAmenities(building_id,
                                                sample, seq.amenity + 1)]]
                     /\ op' = [op EXCEPT ![c].i = @ + 1]
                     /\ last' = Step("insert_buildings_and_amenities", c,
                                     NoResult)
                     /\ UNCHANGED <<pc, conn>>
    /\ UNCHANGED <<tables, review, now, hist>>

\* conn.commit() after the loop: the writes are published and the call
\* returns; `hist` keeps the list and the rows the first call left.
insert_buildings_and_amenities_commit(c) ==
    /\ pc[c] = "for_b"
    /\ op[c].i > Len(op[c].buildings_data)
    /\ address' = Overlay(address, pending[c].address, "addressid")
    /\ building' = Overlay(building, pending[c].building, "buildingid")
    /\ amenity' = Overlay(amenity, pending[c].amenity, "amenityid")
    /\ pending' = [pending EXCEPT ![c] = SeedPending]
    /\ pc' = [pc EXCEPT ![c] = "idle"]
    /\ op' = [op EXCEPT ![c] = NoOp]
    /\ hist' = [hist EXCEPT ![c] =
            IF hist[c] = NoOp
            THEN [kind |-> "seeded", runs |-> 1,
                  buildings_data |-> op[c].buildings_data,
                  before |-> [address |-> address, building |-> building],
                  first |-> [address |-> address', building |-> building']]
            ELSE [hist[c] EXCEPT !.runs = 2]]
    /\ last' = Step("insert_buildings_and_amenities_commit", c, NoResult)
    /\ UNCHANGED <<tag, amenitytag, user, review, seq, now, conn>>

\* The stores the script finds: empty, the catalogue, and two buildings at
\* two addresses; address texts and building names are unique in each.
SeedStores ==
    {[address |-> {}, building |-> {}, amenity |-> {}],
     [address |-> CatalogueAddress, building |-> CatalogueBuilding,
      amenity |-> CatalogueAmenity],
     [address |-> CatalogueAddress \cup
                    {[addressid |-> 2, address |-> <<"d">>, lat |-> 41,
                      lon |-> -87]},
      building |-> CatalogueBuilding \cup
                    {[buildingid |-> 2, name |-> <<"C">>, addressid |-> 2]},
      amenity |-> CatalogueAmenity]}

InitBuildings ==
    /\ \E s \in SeedStores :
        /\ address = s.address
        /\ building = s.building
        /\ amenity = s.amenity
        /\ seq = [address |-> Cardinality(s.address),
                  building |-> Cardinality(s.building),
                  amenity |-> Cardinality(s.amenity), review |-> 0]
    /\ tag = CatalogueTag
    /\ amenitytag = {}
    /\ user = CatalogueUserRows
    /\ review = {}
    /\ now = 0
    /\ pc = [c \in Clients |-> "idle"]
    /\ op = [c \in Clients |-> NoOp]
    /\ conn = [c \in Clients |-> "ready"]
    /\ pending = [c \in Clients |-> SeedPending]
    /\ last = Step("Init", 0, NoResult)
    /\ hist = [c \in Clients |-> NoOp]

\* The script is run on a list of scraped buildings, and once more on the
\* same list.
NextBuildings ==
    \E c \in {1} :
        \/ \E buildings_data \in BuildingLists :
                insert_buildings_and_amenities_begin(c, buildings_data)
        \/ \E sample \in SeedSamples :
                insert_buildings_and_amenities(c, sample)
        \/ insert_buildings_and_amenities_commit(c)

SpecBuildings == InitBuildings /\ [][NextBuildings]_vars

\* ------------------------------- the seeding script: users and reviews
\* generate_and_insert_random_data(conn, num_reviews, num_users).
num_users == 2
num_reviews == 2

\* What Faker gives: user names may repeat, and may be names the store
\* holds; fake.unique.email() never repeats within a run, but may give an
\* email the store holds.
FakeUserNames == {"ann", "cat"}
FakeEmails == {"ann@x", "cat@x", "dan@x"}
\* round(random.uniform(1.0, 5.0), 1), in thousandths of a star.
FakeRatings == {1000, 4200}
tags_to_insert ==
    <<"Clean", "Dirty", "HighPressure", "LowPressure", "OutofOrder", "Modern",
      "Spacious", "ColdWater", "WarmWater">>

\* "User".UserName is unique: an INSERT of a name a visible row has raises
\* psycopg2.IntegrityError.
UserNameUniqueViolation(U, username) == \E x \in U : x.username = username

\* rating_details, by the type of the amenity.
FakeRatingDetails(type) ==
    CASE type = "Bathroom" -> "cleanliness,privacy,stock"
      [] type = "WaterFountain" -> "flow,temperature,filter_status"
      [] type = "VendingMachine" ->
            "selection,working_status,payment_options"
      [] OTHER -> "{}"

\* The function is called on the open connection.
generate_and_insert_random_data_begin(c) ==
    /\ pc[c] = "idle"
    /\ conn[c] = "ready"
    /\ hist[c] = NoOp
    /\ pc' = [pc EXCEPT ![c] = "for_users"]
    /\ op' = [op EXCEPT ![c] =
            [kind |-> "generate_and_insert_random_data", n |-> 0,
             emails |-> {}, user_ids |-> <<>>, tag_ids |-> <<>>,
             amenity_map |-> {}, review_rows |-> <<>>,
             amenity_tag_pairs |-> {}]]
    /\ hist' = [hist EXCEPT ![c] = [kind |-> "seeding"]]
    /\ last' = Step("generate_and_insert_random_data_begin", c, NoResult)
    /\ UNCHANGED <<tables, review, seq, now, conn, pending>>

\* One pass of `for _ in range(num_users)`: INSERT INTO "User" ... ON CONFLICT
\* (Email) DO NOTHING RETURNING UserId.  A row with the email: no row is
\* returned.  A row with the user name: IntegrityError, and the except
\* clause calls conn.rollback().  Otherwise the id is appended to user_ids.
generate_and_insert_random_data_user(c, username, email) ==
    /\ pc[c] = "for_users"
    /\ op[c].n < num_users
    /\ email \notin op[c].emails
    /\ LET w == pending[c]
           users == Overlay(user, w.user, "userid")
           id == seq.user + 1
           o == [op[c] EXCEPT !.n = @ + 1, !.emails = @ \cup {email}]
       IN  /\ seq' = [seq EXCEPT !.user = id]
           /\ IF \E x \in users : x.email = email
              THEN /\ op' = [op EXCEPT ![c] = o]
                   /\ UNCHANGED pending
                   /\ last' = Step("generate_and_insert_random_data_user", c,
                                   Response("user", 0, "conflict", 0, 0, <<>>))
              ELSE IF UserNameUniqueViolation(users, username)
              THEN /\ op' = [op EXCEPT ![c] = o]
                   /\ pending' = [pending EXCEPT ![c] = SeedPending]
                   /\ last' = Step("generate_and_insert_random_data_user", c,
                                   Response("user", 0, "IntegrityError", 0, 0,
                                            <<>>))
              ELSE /\ op' = [op EXCEPT ![c] =
                                [o EXCEPT !.user_ids = Append(@, id)]]
                   /\ pending' = [pending EXCEPT ![c].user = @ \cup
                            {[userid |-> id, username |-> username,
                              email |-> email]}]
                   /\ last' = Step("generate_and_insert_random_data_user", c,
                                   Response("user", 0, "", id, 0, <<>>))
    /\ UNCHANGED <<tables, review, now, pc, conn, hist>>

\* conn.commit() after the loop.
generate_and_insert_random_data_users_commit(c) ==
    /\ pc[c] = "for_users"
    /\ op[c].n = num_users
    /\ user' = Overlay(user, pending[c].user, "userid")
    /\ pending' = [pending EXCEPT ![c] = SeedPending]
    /\ pc' = [pc EXCEPT ![c] = "tags"]
    /\ last' = Step("generate_and_insert_random_data_users_commit", c,
                    NoResult)
    /\ UNCHANGED <<address, building, amenity, tag, amenitytag, review, seq,
                   now, op, conn, hist>>

\* The tags: INSERT INTO tag ... ON CONFLICT (label) DO NOTHING RETURNING
\* tagid, and the id of the row that exists where none is returned.  Then
\* the amenities are selected; with none of them the function returns, and
\* main() closes the connection on what is not committed.
generate_and_insert_random_data_tags(c) ==
    /\ pc[c] = "tags"
    /\ LET tags == Overlay(tag, pending[c].tag, "tagid")
           Existing(k) == {t \in tags : t.label = tags_to_insert[k]}
           TagId(k) == IF Existing(k) = {} THEN seq.tag + k
                       ELSE (CHOOSE t \in Existing(k) : TRUE).tagid
           new == {[tagid |-> seq.tag + k, label |-> tags_to_insert[k]] :
                     k \in {j \in DOMAIN tags_to_insert : Existing(j) = {}}}
           amenities == Overlay(amenity, pending[c].amenity, "amenityid")
       IN  /\ seq' = [seq EXCEPT !.tag = @ + Len(tags_to_insert)]
           /\ IF amenities = {}
              THEN /\ pc' = [pc EXCEPT ![c] = "idle"]
                   /\ op' = [op EXCEPT ![c] = NoOp]
                   /\ conn' = [conn EXCEPT ![c] = "closed"]
                   /\ UNCHANGED pending
              ELSE /\ pc' = [pc EXCEPT ![c] = "for_reviews"]
                   /\ op' = [op EXCEPT ![c] = [@ EXCEPT
                        !.tag_ids = [k \in DOMAIN tags_to_insert |-> TagId(k)],
                        !.amenity_map = {<<a.amenityid, a.type>> :
                                            a \in amenities}]]
                   /\ pending' = [pending EXCEPT ![c].tag = @ \cup new]
                   /\ UNCHANGED conn
    /\ last' = Step("generate_and_insert_random_data_tags", c, NoResult)
    /\ UNCHANGED <<tables, review, now, hist>>

\* One pass of `for _ in range(num_reviews)`: random.choice(user_ids) raises
\* IndexError on an empty list; otherwise a row is appended to review_rows
\* and the pairs of the selected tags to amenity_tag_pairs.
generate_and_insert_random_data_review(c, overall_rating, tags) ==
    /\ pc[c] = "for_reviews"
    /\ Len(op[c].review_rows) < num_reviews
    /\ IF op[c].user_ids = <<>>
       THEN SeedRaise(c, "generate_and_insert_random_data_review",
                      "IndexError")
       ELSE /\ \E i \in DOMAIN op[c].user_ids, am \in op[c].amenity_map :
                op' = [op EXCEPT ![c] = [@ EXCEPT
                    !.review_rows = Append(@,
                        [userid |-> op[c].user_ids[i], amenityid |-> am[1],
                         overallrating |-> overall_rating,
                         ratingdetails |-> FakeRatingDetails(am[2]),
                         timestamp |-> 0]),
                    !.amenity_tag_pairs = @ \cup
                        {[amenityid |-> am[1], tagid |-> op[c].tag_ids[k]] :
                            k \in tags}]]
            /\ last' = Step("generate_and_insert_random_data_review", c,
                            NoResult)
            /\ UNCHANGED <<pc, conn, pending>>
    /\ UNCHANGED <<tables, review, seq, now, hist>>

\* cur.executemany(INSERT INTO review ... ON CONFLICT (userid, amenityid) DO
\* NOTHING, review_rows): row by row from row i, with the reviews W written
\* so far and the last review id `id`.  A row of a pair with a visible
\* review is skipped; a row that references no visible user or amenity
\* raises ForeignKeyViolation.
RECURSIVE ExecuteMany(_, _, _, _, _)
ExecuteMany(rows, i, W, id, users) ==
    IF i > Len(rows) THEN [class |-> "", review |-> W, id |-> id]
    ELSE LET row == rows[i]
         IN  IF \E x \in Overlay(review, W, "reviewid") :
                    x.userid = row.userid /\ x.amenityid = row.amenityid
             THEN ExecuteMany(rows, i + 1, W, id + 1, users)
             ELSE IF \/ row.userid \notin {x.userid : x \in users}
                     \/ row.amenityid \notin {x.amenityid : x \in amenity}
             THEN [class |-> "ForeignKeyViolation", review |-> W,
                   id |-> id + 1]
             ELSE ExecuteMany(rows, i + 1,
                    W \cup {ReviewRow(id + 1, row.userid, row.amenityid,
                                      row.overallrating, row.ratingdetails,
                                      row.timestamp)},
                    id + 1, users)

\* The review rows are inserted with executemany; an error leaves the
\* function and main() rolls back.
generate_and_insert_random_data_executemany(c) ==
    /\ pc[c] = "for_reviews"
    /\ Len(op[c].review_rows) = num_reviews
    /\ LET done == ExecuteMany(op[c].review_rows, 1, pending[c].review,
                               seq.review,
                               Overlay(user, pending[c].user, "userid"))
       IN  /\ seq' = [seq EXCEPT !.review = done.id]
           /\ IF done.class # ""
              THEN /\ pc' = [pc EXCEPT ![c] = "idle"]
                   /\ op' = [op EXCEPT ![c] = NoOp]
                   /\ conn' = [conn EXCEPT ![c] = "closed"]
                   /\ pending' = [pending EXCEPT ![c] = SeedPending]
                   /\ last' = StepOf(
                        "generate_and_insert_random_data_executemany", c,
                        op[c], Response("executemany", 0, done.class, 0, 0,
                                        <<>>))
              ELSE /\ pc' = [pc EXCEPT ![c] = "amenitytags"]
                   /\ pending' = [pending EXCEPT ![c].review = done.review]
                   /\ last' = StepOf(
                        "generate_and_insert_random_data_executemany", c,
                        op[c], Response("executemany", 0, "", 0, 0, <<>>))
                   /\ UNCHANGED <<op, conn>>
    /\ UNCHANGED <<tables, review, now, hist>>

\* The distinct amenity-tag pairs are inserted, ON CONFLICT (amenityid,
\* tagid) DO NOTHING, and conn.commit() publishes tags, reviews and pairs.
generate_and_insert_random_data_commit(c) ==
    /\ pc[c] = "amenitytags"
    /\ tag' = Overlay(tag, pending[c].tag, "tagid")
    /\ review' = Overlay(review, pending[c].review, "reviewid")
    /\ amenitytag' = amenitytag \cup op[c].amenity_tag_pairs
    /\ pending' = [pending EXCEPT ![c] = SeedPending]
    /\ pc' = [pc EXCEPT ![c] = "done"]
    /\ last' = StepOf("generate_and_insert_random_data_commit", c, op[c],
                      NoResult)
    /\ UNCHANGED <<address, building, amenity, user, seq, now, op, conn, hist>>

\* POST /reviews of another client, from the request to its commit, while
\* the script runs: it waits while the script's transaction holds the pair.
create_review(c, u, a, r, d) ==
    /\ hist[c] = NoOp
    /\ ~ReviewForeignKeyViolation(u, a)
    /\ ~ReviewUniqueViolation(u, a)
    /\ \A d2 \in Clients \ {c} : \A x \in pending[d2].review :
            ~(x.userid = u /\ x.amenityid = a)
    /\ review' = review \cup {ReviewRow(seq.review + 1, u, a, r, d, 0)}
    /\ seq' = [seq EXCEPT !.review = @ + 1]
    /\ hist' = [hist EXCEPT ![c] = [kind |-> "reviewed"]]
    /\ last' = Step("create_review", c,
                    Response("create_review", 200, "", seq.review + 1, 0,
                             <<>>))
    /\ UNCHANGED <<tables, now, pc, op, conn, pending>>

\* The store main() has filled with buildings and amenities, or with none.
InitSeed ==
    /\ address = CatalogueAddress
    /\ building = CatalogueBuilding
    /\ amenity \in {CatalogueAmenity, {}}
    /\ tag = CatalogueTag
    /\ amenitytag = {}
    /\ user = CatalogueUserRows
    /\ review = {}
    /\ seq = [address |-> Cardinality(CatalogueAddress),
              building |-> Cardinality(CatalogueBuilding),
              amenity |-> Cardinality(CatalogueAmenityIds),
              review |-> 0, user |-> Cardinality(CatalogueUserRows),
              tag |-> Cardinality(CatalogueTag)]
    /\ now = 0
    /\ pc = [c \in Clients |-> "idle"]
    /\ op = [c \in Clients |-> NoOp]
    /\ conn = [c \in Clients |-> "ready"]
    /\ pending = [c \in Clients |-> SeedPending]
    /\ last = Step("Init", 0, NoResult)
    /\ hist = [c \in Clients |-> NoOp]

\* The script runs once; another client posts one review meanwhile.
NextSeed ==
    \/ \E c \in {1} :
        \/ generate_and_insert_random_data_begin(c)
        \/ \E username \in FakeUserNames, email \in FakeEmails :
                generate_and_insert_random_data_user(c, username, email)
        \/ generate_and_insert_random_data_users_commit(c)
        \/ generate_and_insert_random_data_tags(c)
        \/ \E overall_rating \in FakeRatings, tags \in {{}, {1}} :
                generate_and_insert_random_data_review(c, overall_rating,
                                                       tags)
        \/ generate_and_insert_random_data_executemany(c)
        \/ generate_and_insert_random_data_commit(c)
    \/ \E c \in {2}, u \in {x.userid : x \in user}, a \in CatalogueAmenityIds :
            create_review(c, u, a, 2000, "d1")

SpecSeed == InitSeed /\ [][NextSeed]_vars

\* ------------------------------------------------ the composite writers
\* Concurrent clients run the two composite writers and the readers of what
\* they write; any statement sent to the store may raise.
NextComposite ==
    \E c \in Clients :
        \/ \E addr \in {<<"b">>, <<"a", " ", "b">>}, lat \in {40, 95},
              fail \in BOOLEAN :
                create_building_with_address_begin(c, <<"b">>, addr, lat, -88,
                                                   fail)
        \/ \E fail \in BOOLEAN : create_building_with_address(c, fail)
        \/ \E building_id \in {1, 9}, fail \in BOOLEAN,
              tag_ids \in {<<>>, <<1>>, <<1, 1>>, <<1, 2>>, <<1, 9>>} :
                create_amenity_with_tags_begin(c, building_id, "Bathroom",
                                               "1", Null, tag_ids, fail)
        \/ \E fail \in BOOLEAN : create_amenity_with_tags(c, fail)
        \/ \E building_id \in {1, 2} : get_building(c, building_id)
        \/ \E amenity_id \in {1, 3} : get_amenity(c, amenity_id)

SpecComposite == Init /\ [][NextComposite]_vars

\* ------------------------------------------------------------------ C1
\* C1: in every reachable state, whatever create_review, upsert_review,
\* update_review and delete_review calls the concurrent clients have made,
\* the Review table holds at most one row for each (userId, amenityId) pair.
C1_OneReviewPerPair ==
    \A x, y \in review :
        x.userid = y.userid /\ x.amenityid = y.amenityid => x = y

\* Two clients have both tried to insert the pair the store holds a row of:
\* the create was refused while the row was there.
C1_Witness ==
    /\ last.a = "create_review_execute"
    /\ last.res.status = 400
    /\ \E x \in review : x.reviewid # SeedReview.reviewid

\* ------------------------------------------------------------------ C5
\* C5: when upsert_review(userId, amenityId, rating, details) commits: if the
\* pair had no review, exactly one review of the pair now exists, with that
\* rating and those details; if it had one, that row now carries the supplied
\* rating and details under the reviewId and timestamp it had; and every
\* review of another pair is as it was.
C5_UpsertEffect ==
    [][\A c \in Clients :
         (pc[c] = "commit" /\ op[c].kind = "upsert_review" /\ pc'[c] = "idle")
         =>
         LET u == op[c].user_id
             a == op[c].amenity_id
             old == ReviewsOfPair(u, a)
             new == {x \in review' : x.userid = u /\ x.amenityid = a}
         IN  /\ last'.res.status = 200
             /\ Cardinality(new) = 1
             /\ \A x \in new :
                    /\ x.overallrating = op[c].overall_rating
                    /\ x.ratingdetails = op[c].rating_details
                    /\ \A o \in old : /\ x.reviewid = o.reviewid
                                      /\ x.timestamp = o.timestamp
             /\ review' \ new = review \ old
      ]_vars

\* An upsert has overwritten the review of its pair while the store held a
\* review of another pair.
C5_Witness ==
    /\ last.a = "upsert_review_commit"
    /\ last.res.path = "update"
    /\ Cardinality(review) >= 2

\* ------------------------------------------------------------------ C6
\* C6: a create_review for a (userId, amenityId) pair that already has a
\* review answers with an error, leaves no insert behind (none committed and
\* none pending in a transaction), and the Review table, the existing review's
\* rating, details, timestamp and id with it, is as it was.
C6_CreateConflict ==
    [][\A c \in Clients, u \in CatalogueUsers, a \in CatalogueAmenityIds,
          b \in ValidBodies :
         (create_review_execute(c, u, a, b[1], b[2]) /\ ReviewsOfPair(u, a) # {})
         =>
         /\ last'.res.status >= 400
         /\ review' = review
         /\ pc'[c] = "idle"
         /\ pending'[c] = NoPending
      ]_vars

\* A create_review was refused while the store held reviews of both pairs.
C6_Witness ==
    /\ last.a = "create_review_execute"
    /\ last.res.status = 400
    /\ Cardinality(review) >= 2

\* ------------------------------------------------------------------ C4
\* C4: two upsert_review calls for the same (userId, amenityId) pair, sent
\* while the store holds no review of the pair, never both take effect as
\* inserts: once both have returned, exactly one review of the pair exists
\* and its rating is the rating of one of the two calls.
C4_ConcurrentUpserts ==
    \A c, e \in RaceClients :
        (c # e /\ hist[c].kind = "done" /\ hist[e].kind = "done")
        =>
        LET rows == ReviewsOfPair(hist[c].user_id, hist[c].amenity_id)
        IN  /\ ~(hist[c].path = "insert" /\ hist[e].path = "insert")
            /\ Cardinality(rows) = 1
            /\ \A x \in rows :
                  x.overallrating \in
                      {hist[c].overall_rating, hist[e].overall_rating}

\* Both calls have returned, one of them sent while the other was in
\* progress, and they carried different ratings.
C4_Witness ==
    \E c, e \in RaceClients :
        /\ c # e
        /\ hist[c].kind = "done" /\ hist[e].kind = "done"
        /\ hist[e].overlap
        /\ hist[c].overall_rating # hist[e].overall_rating

\* ----------------------------------------------------------------- C10
\* C10: list_amenities has no cache: whatever create_review, update_review,
\* upsert_review and delete_review calls have committed, every row it returns
\* has review_count equal to the number of reviews now stored for the amenity
\* and avg_rating equal to the mean of their ratings (0 when there is none).
C10_ListingIsCurrent ==
    (last.a = "list_amenities" /\ last.res.status = 200)
    =>
    \A i \in 1 .. Len(last.res.rows) :
        LET row == last.res.rows[i]
            R == {x \in review : x.amenityid = row.amenityid}
        IN  /\ row.review_count = Cardinality(R)
            /\ IF R = {}
               THEN row.avg_rating.num = 0
               ELSE row.avg_rating.num * Cardinality(R)
                        = SumRatings(R) * row.avg_rating.den

\* The listing was returned after writes: it shows an amenity with two
\* reviews (average 3.25) and an amenity with none.
C10_Witness ==
    /\ last.a = "list_amenities"
    /\ \E i, j \in 1 .. Len(last.res.rows) :
          /\ last.res.rows[i].review_count = 2
          /\ last.res.rows[i].avg_rating.num * 2
                 = 6500 * last.res.rows[i].avg_rating.den
          /\ last.res.rows[j].review_count = 0

\* ------------------------------------------------------------------ C2
\* C2: create_building_with_address is all-or-nothing.  When a call returns,
\* either it answers 200 and exactly one Address row and one Building row
\* referencing it, both created by the call, are committed, or it answers
\* an error and it changes neither table: no Address row created by the
\* call is committed.
C2_BuildingAllOrNothing ==
    [][\A c \in Clients :
        (op[c].kind = "create_building_with_address" /\ pc'[c] = "idle") =>
            LET newAddress == {x \in address' :
                                 x.addressid = op[c].address_id}
                newBuilding == {x \in building' :
                                  x.buildingid = op[c].building_id}
            IN  \/ /\ last'.res.status = 200
                   /\ Cardinality(newAddress) = 1
                   /\ Cardinality(newBuilding) = 1
                   /\ \A x \in newBuilding : x.addressid = op[c].address_id
                \/ /\ last'.res.status >= 400
                   /\ address' = address
                   /\ building' = building
                   /\ newAddress = {}
                   /\ newBuilding = {}]_vars

\* A call with a new address text has returned an error, and the tables
\* hold the catalogue only.
C2_Witness ==
    /\ last.res.kind = "create_building_with_address"
    /\ last.res.status = 400
    /\ ~AddressUniqueViolation(last.req.address)
    /\ address = CatalogueAddress
    /\ building = CatalogueBuilding

\* ------------------------------------------------------------------ C3
\* C3: create_amenity_with_tags is all-or-nothing.  A call whose tag_ids
\* name a tag that does not exist, and any call that answers an error,
\* answers an error and commits neither the Amenity row nor any AmenityTag
\* row it inserted.
C3_AmenityAllOrNothing ==
    [][\A c \in Clients :
        (/\ op[c].kind = "create_amenity_with_tags"
         /\ pc'[c] = "idle"
         /\ \/ last'.res.status >= 400
            \/ \E i \in DOMAIN op[c].tag_ids :
                    AmenityTagForeignKeyViolation(op[c].tag_ids[i])) =>
            /\ last'.res.status >= 400
            /\ amenity' = amenity
            /\ amenitytag' = amenitytag
            /\ \A x \in amenity' : x.amenityid # op[c].amenity_id
            /\ \A x \in amenitytag' : x.amenityid # op[c].amenity_id]_vars

\* A call on an existing building whose tag_ids name an existing tag and
\* then a tag that does not exist has returned an error, and nothing of it
\* is stored.
C3_Witness ==
    /\ last.res.kind = "create_amenity_with_tags"
    /\ last.res.status = 400
    /\ ~AmenityForeignKeyViolation(last.req.building_id)
    /\ Len(last.req.tag_ids) = 2
    /\ ~AmenityTagForeignKeyViolation(last.req.tag_ids[1])
    /\ AmenityTagForeignKeyViolation(last.req.tag_ids[2])
    /\ amenity = CatalogueAmenity
    /\ amenitytag = {}

\* ------------------------------------------------------------------ C7
\* C7: while a composite writer is in progress, what a reader can see (the
\* committed rows) holds no row the call has created, every committed
\* building has its address and every address added to the catalogue has
\* its building, and a reader's answer is not a row of a call in progress.
C7_NoIntermediateState ==
    /\ \A c \in Clients :
        op[c].kind = "create_building_with_address" =>
            /\ \A x \in address : x.addressid # op[c].address_id
            /\ \A x \in building : x.buildingid # op[c].building_id
            /\ (last.res.kind = "get_building" /\ last.res.status = 200) =>
                    last.res.id # op[c].building_id
    /\ \A c \in Clients :
        op[c].kind = "create_amenity_with_tags" =>
            /\ \A x \in amenity : x.amenityid # op[c].amenity_id
            /\ \A x \in amenitytag : x.amenityid # op[c].amenity_id
            /\ (last.res.kind = "get_amenity" /\ last.res.status = 200) =>
                    last.res.id # op[c].amenity_id
    /\ \A b \in building : \E ad \in address : ad.addressid = b.addressid
    /\ \A ad \in address \ CatalogueAddress :
            \E b \in building : b.addressid = ad.addressid

\* A reader has answered with a building while a composite writer of
\* another client was in progress.
C7_Witness ==
    /\ last.res.kind = "get_building"
    /\ last.res.status = 200
    /\ \E c \in Clients : op[c].kind = "create_building_with_address"

\* ------------------------------------------------------------------ C8
\* C8: a call of create_building_with_address with valid input, an address
\* text not yet stored and no error raised by the store answers 200 with a
\* building_id and an address_id such that the committed Building row
\* references the committed Address row holding the given text, lat and lon.
C8_ValidCallCommits ==
    (/\ last.res.kind = "create_building_with_address"
     /\ last.res.status # 422
     /\ last.res.path \notin StoreErrors) =>
        /\ last.res.status = 200
        /\ \E b \in building, ad \in address :
            /\ b.buildingid = last.res.id
            /\ ad.addressid = last.res.id2
            /\ b.addressid = ad.addressid
            /\ b.name = last.req.name
            /\ ad.address = last.req.address
            /\ ad.lat = last.req.lat
            /\ ad.lon = last.req.lon

C11_ListingOrder ==
    (last.res.kind = "list_amenities" /\ last.res.status = 200)
    =>
    \A i, j \in 1 .. Len(last.res.rows) :
        i < j =>
            LET x == last.res.rows[i]
                y == last.res.rows[j]
                ax == x.avg_rating.num * y.avg_rating.den
                ay == y.avg_rating.num * x.avg_rating.den
            IN  \/ ax > ay
                \/ ax = ay /\ x.review_count > y.review_count
                \/ /\ ax = ay
                   /\ x.review_count = y.review_count
                   /\ x.amenityid < y.amenityid

\* The listing has returned two reviewed amenities with the same average and
\* the same count, which only the amenityid tells apart.
C11_Witness ==
    /\ last.res.kind = "list_amenities"
    /\ Len(last.res.rows) = 2
    /\ last.res.rows[1].review_count = 1
    /\ last.res.rows[2].review_count = 1
    /\ last.res.rows[1].avg_rating = last.res.rows[2].avg_rating

\* ----------------------------------------------------------------- C12
\* C12: when upsert_review has been called twice in a row with the same
\* arguments, the Review table is as the first call left it, and if the
\* second call succeeded the pair has exactly one review, which holds the
\* rating and the details of the call.
C12_UpsertIdempotent ==
    \A c \in Clients :
        hist[c].kind = "twice" =>
            /\ review = hist[c].after
            /\ last.res.status = 200 =>
                  /\ Cardinality(ReviewsOfPair(hist[c].user_id,
                                               hist[c].amenity_id)) = 1
                  /\ \A x \in ReviewsOfPair(hist[c].user_id,
                                             hist[c].amenity_id) :
                        /\ x.overallrating = hist[c].overall_rating
                        /\ x.ratingdetails = hist[c].rating_details

\* Both calls have succeeded, the first by inserting the review and the
\* second by updating it.
C12_Witness ==
    \E c \in Clients :
        /\ hist[c].kind = "twice"
        /\ last.res.status = 200
        /\ last.res.path = "update"
        /\ Cardinality(hist[c].after) = 2

\* ----------------------------------------------------------------- C13
\* C13: no connection stays open after an operation has returned: a client
\* that is serving no request holds no open connection, whatever way the
\* operation ended.
C13_ConnectionReleased ==
    \A c \in Clients : pc[c] = "idle" => conn[c] = "closed"

\* ----------------------------------------------------------------- C14
\* C14: a store error raised during any operation is answered with a
\* client-facing error (a 4xx status), never with an unhandled failure.
C14_StoreErrorHandled ==
    last.res.path \in StoreErrors =>
        last.res.status >= 400 /\ last.res.status < 500

\* ----------------------------------------------------------------- C15
\* C15: the answer of create_review to a duplicate (userId, amenityId) pair
\* has a status that the answer of create_review to any other store error
\* does not have.
C15_ConflictDistinct ==
    last.res = create_review_error("UniqueViolation") =>
        \A class \in StoreErrors \ {"UniqueViolation"} :
            create_review_error(class).status # last.res.status

\* ----------------------------------------------------------------- C16
\* C16: leaderboard_overall_amenities ranks individual amenities: every row
\* it returns carries the review count and the average of one reviewed
\* amenity of that building name, type and floor, and (when the limit cuts
\* nothing off) there are as many rows as reviewed amenities.
C16_PerAmenityRanking ==
    (/\ last.res.kind = "leaderboard_overall_amenities"
     /\ last.res.status = 200
     /\ Len(last.res.rows) < LeaderboardLimit) =>
        LET Reviewed == {j.a : j \in OverallJoined}
        IN  /\ Len(last.res.rows) = Cardinality(Reviewed)
            /\ \A i \in DOMAIN last.res.rows :
                 \E a \in Reviewed :
                    LET R == {r \in review : r.amenityid = a.amenityid}
                    IN  /\ last.res.rows[i].type = a.type
                        /\ last.res.rows[i].floor = a.floor
                        /\ last.res.rows[i].review_count = Cardinality(R)
                        /\ last.res.rows[i].avg_rating
                               = Round2(SumRatings(R), Cardinality(R))

\* ----------------------------------------------------------------- C17
\* C17: in the leaderboards whose first sort key is the average (overall
\* amenities, clean bathrooms), the rows come in the order of the unrounded
\* averages of their groups: no row comes before a row whose unrounded
\* average is higher.
C17_OrderByUnrounded ==
    /\ (last.res.kind = "leaderboard_overall_amenities"
            /\ last.res.status = 200) =>
        \A i, j \in DOMAIN last.res.rows :
            i < j =>
                LET Gi == {x \in OverallJoined :
                             /\ x.b.name = last.res.rows[i].building_name
                             /\ x.a.type = last.res.rows[i].type
                             /\ x.a.floor = last.res.rows[i].floor}
                    Gj == {x \in OverallJoined :
                             /\ x.b.name = last.res.rows[j].building_name
                             /\ x.a.type = last.res.rows[j].type
                             /\ x.a.floor = last.res.rows[j].floor}
                IN  SumJoined(Gi) * Cardinality(Gj)
                        >= SumJoined(Gj) * Cardinality(Gi)
    /\ (last.res.kind = "leaderboard_clean_bathrooms_vending"
            /\ last.res.status = 200) =>
        \A i, j \in DOMAIN last.res.rows :
            i < j =>
                LET Gi == {x \in CleanJoined :
                             /\ x.b.name = last.res.rows[i].building_name
                             /\ x.ad.address = last.res.rows[i].address}
                    Gj == {x \in CleanJoined :
                             /\ x.b.name = last.res.rows[j].building_name
                             /\ x.ad.address = last.res.rows[j].address}
                IN  SumJoined(Gi) * Cardinality(Gj)
                        >= SumJoined(Gj) * Cardinality(Gi)

\* ----------------------------------------------------------------- C18
\* C18 (as amended): the cold_tag_count of a row of
\* leaderboard_coldest_fountains is the number of ColdWater AmenityTag rows
\* of a reviewed fountain of the row's building name, floor and notes,
\* however many reviews the fountain has.
C18_ColdTagCountIsTagRows ==
    (last.res.kind = "leaderboard_coldest_fountains" /\ last.res.status = 200)
    =>
    \A i \in DOMAIN last.res.rows :
        \E j \in OverallJoined :
            /\ j.a.type = "WaterFountain"
            /\ j.b.name = last.res.rows[i].building_name
            /\ j.a.floor = last.res.rows[i].floor
            /\ j.a.notes = last.res.rows[i].notes
            /\ last.res.rows[i].cold_tag_count =
                  Cardinality({at \in amenitytag :
                      /\ at.amenityid = j.a.amenityid
                      /\ \E t \in tag : /\ t.tagid = at.tagid
                                        /\ t.label = "ColdWater"})

\* The leaderboard has returned a fountain that has one ColdWater tag row
\* and two reviews, with cold_tag_count 1.
C18_Witness ==
    /\ last.res.kind = "leaderboard_coldest_fountains"
    /\ Len(last.res.rows) = 1
    /\ last.res.rows[1].cold_tag_count = 1
    /\ Cardinality(ColdJoined) = 2

\* C18 (as stated): a ColdWater fountain with more than one review is
\* reported with a cold_tag_count larger than the number of its ColdWater
\* AmenityTag rows.
C18_ColdTagCountMultiplied ==
    (last.res.kind = "leaderboard_coldest_fountains" /\ last.res.status = 200)
    =>
    \A i \in DOMAIN last.res.rows :
        \A a \in {j.a : j \in ColdJoined} :
            (/\ a.floor = last.res.rows[i].floor
             /\ a.notes = last.res.rows[i].notes
             /\ \E b \in building :
                    /\ b.buildingid = a.buildingid
                    /\ b.name = last.res.rows[i].building_name
             /\ Cardinality({r \in review : r.amenityid = a.amenityid}) > 1)
            =>
            last.res.rows[i].cold_tag_count >
                Cardinality({at \in amenitytag :
                    /\ at.amenityid = a.amenityid
                    /\ \E t \in tag : /\ t.tagid = at.tagid
                                      /\ t.label = "ColdWater"})

\* ----------------------------------------------------------------- C19
\* C19: leaderboard_clean_bathrooms_vending returns at most 15 rows, one
\* for each building that has a VendingMachine amenity and a reviewed
\* Bathroom amenity (when the limit cuts nothing off); the rating of a row
\* is the rounded mean of the reviews of the bathrooms of one such building,
\* each review counted once; the ratings are in descending order.
C19_CleanBathrooms ==
    (/\ last.res.kind = "leaderboard_clean_bathrooms_vending"
     /\ last.res.status = 200) =>
        LET BathroomReviews(b) ==
                {r \in review : \E a \in amenity :
                    /\ a.amenityid = r.amenityid
                    /\ a.buildingid = b.buildingid
                    /\ a.type = "Bathroom"}
            Qualifying ==
                {b \in building :
                    /\ \E a \in amenity : /\ a.buildingid = b.buildingid
                                          /\ a.type = "VendingMachine"
                    /\ BathroomReviews(b) # {}}
            rows == last.res.rows
        IN  /\ Len(rows) <= LeaderboardLimit
            /\ Len(rows) < LeaderboardLimit =>
                    Len(rows) = Cardinality(Qualifying)
            /\ \A i \in DOMAIN rows :
                 \E b \in Qualifying :
                    /\ b.name = rows[i].building_name
                    /\ rows[i].avg_bathroom_rating =
                          Round2(SumRatings(BathroomReviews(b)),
                                 Cardinality(BathroomReviews(b)))
            /\ \A i, j \in DOMAIN rows :
                 i < j => rows[i].avg_bathroom_rating
                              >= rows[j].avg_bathroom_rating

\* ----------------------------------------------------------------- C20
\* C20: each of the three leaderboards returns at most 15 rows, and every
\* row is backed by a review: a review exists of an amenity of the row's
\* building name and of the row's type and floor (overall amenities), of a
\* fountain of the row's floor (coldest fountains), of a bathroom (clean
\* bathrooms).
C20_OnlyReviewed ==
    last.res.status = 200 =>
        LET rows == last.res.rows
            Backed(name, types, floors) ==
                \E r \in review, a \in amenity, b \in building :
                    /\ r.amenityid = a.amenityid
                    /\ a.buildingid = b.buildingid
                    /\ b.name = name
                    /\ a.type \in types
                    /\ a.floor \in floors
            AllFloors == {a.floor : a \in amenity}
        IN  /\ last.res.kind = "leaderboard_overall_amenities" =>
                /\ Len(rows) <= LeaderboardLimit
                /\ \A i \in DOMAIN rows :
                      Backed(rows[i].building_name, {rows[i].type},
                             {rows[i].floor})
            /\ last.res.kind = "leaderboard_coldest_fountains" =>
                /\ Len(rows) <= LeaderboardLimit
                /\ \A i \in DOMAIN rows :
                      Backed(rows[i].building_name, {"WaterFountain"},
                             {rows[i].floor})
            /\ last.res.kind = "leaderboard_clean_bathrooms_vending" =>
                /\ Len(rows) <= LeaderboardLimit
                /\ \A i \in DOMAIN rows :
                      Backed(rows[i].building_name, {"Bathroom"}, AllFloors)

\* The overall leaderboard has returned its 15 rows on a store that has more
\* reviewed groups than that and amenities (the vending machines) without a
\* review.
C20_Witness ==
    /\ last.res.kind = "leaderboard_overall_amenities"
    /\ Len(last.res.rows) = LeaderboardLimit
    /\ Cardinality(OverallRows) > LeaderboardLimit
    /\ \E a \in amenity : \A r \in review : r.amenityid # a.amenityid

\* ----------------------------------------------------------------- C21
\* C21: when list_amenities returns the whole listing (offset 0, and fewer
\* rows than the limit), every amenity that has no review and satisfies the
\* filters of the request (its type is the given type, and the trimmed
\* keyword, if any, occurs in its building's name, its address or its
\* notes, whatever the case) has a row, with avg_rating 0 and
\* review_count 0.
C21_UnreviewedListed ==
    (/\ last.res.kind = "list_amenities"
     /\ last.res.status = 200
     /\ last.req.offset = 0
     /\ Len(last.res.rows) < last.req.limit) =>
        LET kw == IF last.req.keyword = None THEN <<>>
                  ELSE LowerText(Strip(last.req.keyword))
            Contains(text) ==
                /\ text # Null
                /\ \E i \in 0 .. Len(text) :
                      /\ i + Len(kw) <= Len(text)
                      /\ LowerText(SubSeq(text, i + 1, i + Len(kw))) = kw
        IN  \A a \in amenity, b \in building, ad \in address :
                (/\ a.buildingid = b.buildingid
                 /\ b.addressid = ad.addressid
                 /\ \A r \in review : r.amenityid # a.amenityid
                 /\ last.req.amenity_type \in {"", a.type}
                 /\ Contains(b.name) \/ Contains(ad.address)
                        \/ Contains(a.notes))
                =>
                \E i \in DOMAIN last.res.rows :
                    /\ last.res.rows[i].amenityid = a.amenityid
                    /\ last.res.rows[i].avg_rating.num = 0
                    /\ last.res.rows[i].review_count = 0

\* A listing filtered by type and keyword has returned an amenity without
\* reviews after an amenity that has one.
C21_Witness ==
    /\ last.res.kind = "list_amenities"
    /\ last.req.amenity_type = "Bathroom"
    /\ last.req.keyword = <<"a">>
    /\ Len(last.res.rows) = 2
    /\ last.res.rows[1].review_count = 1
    /\ last.res.rows[2].review_count = 0
    /\ last.res.rows[2].avg_rating.num = 0

\* ----------------------------------------------------------------- C22
\* C22: a list_amenities request whose keyword is empty or made of blanks
\* only is answered like the request without keyword that has the same
\* type filter, limit and offset, on the same store.
C22_BlankKeywordIsAbsent ==
    (/\ last.res.kind = "list_amenities"
     /\ last.req.keyword # None
     /\ \A i \in DOMAIN last.req.keyword : last.req.keyword[i] = " ") =>
        /\ last.res.status = 200 =>
              last.res.rows = ListAmenitiesQuery(None, last.req.amenity_type,
                                                 last.req.limit,
                                                 last.req.offset)
        /\ last.res.status # 200 =>
              (\/ last.req.limit < ListLimitMin
               \/ last.req.limit > ListLimitMax
               \/ last.req.offset < 0)

\* A request with a keyword of two blanks has been answered with every
\* amenity of the store, the one whose notes are NULL included.
C22_Witness ==
    /\ last.res.kind = "list_amenities"
    /\ last.req.keyword = <<" ", " ">>
    /\ last.req.amenity_type = ""
    /\ Len(last.res.rows) = Cardinality(amenity)
    /\ \E i \in DOMAIN last.res.rows : last.res.rows[i].notes = Null

\* ----------------------------------------------------------------- C23
\* C23: when list_amenities returns the whole listing (offset 0, and fewer
\* rows than the limit), its rows are exactly the amenities that satisfy
\* every filter given: the type is the given type, and the trimmed keyword
\* occurs, whatever the case, in the building's name, the address or the
\* notes; a type that no amenity can have gives an empty listing and not
\* an error.
C23_ExactlyTheMatching ==
    (/\ last.res.kind = "list_amenities"
     /\ last.req.limit >= ListLimitMin
     /\ last.req.limit <= ListLimitMax
     /\ last.req.offset = 0) =>
        LET kw == IF last.req.keyword = None THEN <<>>
                  ELSE LowerText(Strip(last.req.keyword))
            Contains(text) ==
                /\ text # Null
                /\ \E i \in 0 .. Len(text) :
                      /\ i + Len(kw) <= Len(text)
                      /\ LowerText(SubSeq(text, i + 1, i + Len(kw))) = kw
            Expected ==
                {a \in amenity :
                    /\ last.req.amenity_type \in {"", a.type}
                    /\ \E b \in building, ad \in address :
                          /\ a.buildingid = b.buildingid
                          /\ b.addressid = ad.addressid
                          /\ Contains(b.name) \/ Contains(ad.address)
                                \/ Contains(a.notes)}
        IN  /\ last.res.status = 200
            /\ Len(last.res.rows) < last.req.limit =>
                  {last.res.rows[i].amenityid : i \in DOMAIN last.res.rows}
                      = {a.amenityid : a \in Expected}
            /\ last.req.amenity_type = "Sauna" => last.res.rows = <<>>

\* ----------------------------------------------------------------- C24
\* C24: the rows list_amenities returns for (limit L, offset O) are the
\* elements O+1 .. O+L of the complete sorted listing for the same filters:
\* the row at place i has exactly O+i-1 rows of the complete listing before
\* it in the sort order and no row that belongs to the page is left out;
\* the pages of L rows at offsets 0, L, 2L, ... are the consecutive slices
\* of the complete listing (the request with the largest limit), which
\* holds every matching amenity once.
C24_PageIsSlice ==
    (last.res.kind = "list_amenities" /\ last.res.status = 200) =>
        LET All == ListingRows(last.req.keyword, last.req.amenity_type)
            N == Cardinality(All)
            L == last.req.limit
            O == last.req.offset
            rows == last.res.rows
            Size(o) == IF N <= o THEN 0 ELSE IF N - o < L THEN N - o ELSE L
            Full == ListAmenitiesQuery(last.req.keyword,
                                       last.req.amenity_type, ListLimitMax, 0)
            Page == [k \in 0 .. (N + L - 1) \div L |->
                        ListAmenitiesQuery(last.req.keyword,
                                           last.req.amenity_type, L, k * L)]
        IN  /\ Len(rows) = Size(O)
            /\ \A i \in DOMAIN rows :
                  /\ rows[i] \in All
                  /\ Cardinality({y \in All : ListingBefore(y, rows[i])})
                        = O + i - 1
            /\ Len(Full) = N
            /\ {Full[i] : i \in DOMAIN Full} = All
            /\ \A k \in DOMAIN Page :
                  /\ Len(Page[k]) = Size(k * L)
                  /\ \A i \in DOMAIN Page[k] : Page[k][i] = Full[k * L + i]

\* The second page of two rows has been returned from a listing of four.
C24_Witness ==
    /\ last.res.kind = "list_amenities"
    /\ last.req.limit = 2
    /\ last.req.offset = 2
    /\ Len(last.res.rows) = 2
    /\ Cardinality(ListingRows(last.req.keyword, last.req.amenity_type)) = 4

\* ----------------------------------------------------------------- C25
\* C25: update_review changes only the fields it is given.  When it commits,
\* the review it addresses keeps its reviewid, userid, amenityid and
\* timestamp, holds the given rating if one was given and its former rating
\* if not, and likewise the details, and every other review is as it was.
\* A call that gives neither field answers 400, and a call on a reviewid
\* that no review has answers 404; they, and the statement of a call before
\* its commit, change no row.
C25_UpdateOnlySupplied ==
    [][/\ \A c \in Clients :
            (/\ pc[c] = "commit"
             /\ op[c].kind = "update_review"
             /\ pc'[c] = "idle") =>
                LET old == ReviewsOfId(op[c].review_id)
                    new == {x \in review' : x.reviewid = op[c].review_id}
                IN  /\ last'.res.status = 200
                    /\ Cardinality(old) = 1
                    /\ Cardinality(new) = 1
                    /\ review' \ new = review \ old
                    /\ \A o \in old, x \in new :
                          /\ x.userid = o.userid
                          /\ x.amenityid = o.amenityid
                          /\ x.timestamp = o.timestamp
                          /\ x.overallrating =
                                IF op[c].has_rating THEN op[c].overall_rating
                                ELSE o.overallrating
                          /\ x.ratingdetails =
                                IF op[c].has_details THEN op[c].rating_details
                                ELSE o.ratingdetails
                          /\ last'.res.rows = <<x>>
       /\ last'.a = "update_review_execute" =>
            \A id \in ReviewIds, b \in ValidBodies, hasRating \in BOOLEAN,
               hasDetails \in BOOLEAN :
                update_review_execute(last'.c, id, hasRating, b[1],
                                      hasDetails, b[2]) =>
                    /\ review' = review
                    /\ UNCHANGED tables
                    /\ ~hasRating /\ ~hasDetails =>
                          /\ last'.res.status = 400
                          /\ pending'[last'.c] = NoPending
                    /\ (hasRating \/ hasDetails) /\ ReviewsOfId(id) = {} =>
                          /\ last'.res.status = 404
                          /\ pending'[last'.c] = NoPending
      ]_vars

\* An update that gave a rating and no details has committed: the review
\* holds the new rating and the details it had, beside another review.
C25_Witness ==
    /\ last.a = "update_review_commit"
    /\ Len(last.res.rows) = 1
    /\ last.res.rows[1].reviewid = SeedReview.reviewid
    /\ last.res.rows[1].overallrating # SeedReview.overallrating
    /\ last.res.rows[1].ratingdetails = SeedReview.ratingdetails
    /\ Cardinality(review) >= 2

\* ----------------------------------------------------------------- C26
\* C26: delete_review on a reviewid that no review has answers 404 and
\* changes no table; on the reviewid of a review it answers 200 with that
\* id and, when it commits, removes that review and no other.
C26_DeleteReview ==
    [][/\ \A c \in Clients :
            (/\ pc[c] = "commit"
             /\ op[c].kind = "delete_review"
             /\ pc'[c] = "idle") =>
                /\ last'.res.status = 200
                /\ last'.res.id = op[c].review_id
                /\ Cardinality(ReviewsOfId(op[c].review_id)) = 1
                /\ review' = review \ ReviewsOfId(op[c].review_id)
                /\ UNCHANGED tables
       /\ last'.a = "delete_review_execute" =>
            \A id \in ReviewIds :
                delete_review_execute(last'.c, id, FALSE) =>
                    /\ review' = review
                    /\ UNCHANGED tables
                    /\ IF ReviewsOfId(id) = {}
                       THEN /\ last'.res.status = 404
                            /\ pc'[last'.c] = "idle"
                            /\ pending'[last'.c] = NoPending
                       ELSE /\ pc'[last'.c] = "commit"
                            /\ pending'[last'.c].row \in ReviewsOfId(id)
      ]_vars

\* A delete has been answered 404 on a store that holds reviews, after
\* another delete removed the review of that id.
C26_Witness ==
    /\ last.a = "delete_review_execute"
    /\ last.res.status = 404
    /\ review # {}
    /\ now = MaxTime

\* ----------------------------------------------------------------- C30
\* C30: get_reviews_for_amenity answers (unless the store raises) with
\* exactly the reviews stored for the amenity, each once and none of another
\* amenity, the more recent first; for an amenity without reviews, or that
\* does not exist, the answer is the empty sequence and not an error.
C30_ReviewsOfAmenity ==
    (last.res.kind = "get_reviews_for_amenity"
        /\ last.res.path \notin StoreErrors) =>
        LET rows == last.res.rows
            R == {r \in review : r.amenityid = last.req.amenity_id}
        IN  /\ last.res.status = 200
            /\ {rows[i] : i \in DOMAIN rows} = R
            /\ Len(rows) = Cardinality(R)
            /\ \A i, j \in DOMAIN rows :
                  i < j => rows[i].timestamp >= rows[j].timestamp
            /\ (\A a \in amenity : a.amenityid # last.req.amenity_id) =>
                  rows = <<>>

\* The two reviews of an amenity, written at different times, have been
\* returned while the store held a review of another amenity.
C30_Witness ==
    /\ last.res.kind = "get_reviews_for_amenity"
    /\ Len(last.res.rows) = 2
    /\ last.res.rows[1].timestamp > last.res.rows[2].timestamp
    /\ \E r \in review : r.amenityid # last.req.amenity_id

\* ----------------------------------------------------------------- C29
\* C29: every stored review has an overall rating from 0 to 5 stars, every
\* write a transaction holds pending has one too, a create_review,
\* upsert_review or update_review that was refused for its rating (422) has
\* left no write behind, and the avg_rating of every row list_amenities
\* returns is from 0 to 5 stars.
C29_RatingInRange ==
    /\ \A r \in review :
          MinRating <= r.overallrating /\ r.overallrating <= MaxRating
    /\ \A c \in Clients :
          pending[c].kind \in {"insert", "update"} =>
              /\ MinRating <= pending[c].row.overallrating
              /\ pending[c].row.overallrating <= MaxRating
    /\ last.res.status = 422 =>
          pending[last.c] = NoPending /\ pc[last.c] = "idle"
    /\ (last.res.kind = "list_amenities" /\ last.res.status = 200) =>
          \A i \in DOMAIN last.res.rows :
              LET avg == last.res.rows[i].avg_rating
              IN  /\ MinRating * avg.den <= avg.num
                  /\ avg.num <= MaxRating * avg.den

\* A write with a rating of 6 stars has been refused on a store that holds
\* two reviews.
C29_Witness ==
    /\ last.res.status = 422
    /\ last.res.kind \in {"create_review", "upsert_review", "update_review"}
    /\ Cardinality(review) = 2

\* ----------------------------------------------------------------- C27
\* C27: attach_tag_to_amenity on a pair that is attached answers 200 with
\* the acknowledgement that it is and leaves the AmenityTag table as it
\* was; on a pair that is not, between an amenity and a tag that exist, it
\* adds the one row of the pair; and whatever attach_tag_to_amenity,
\* detach_tag_from_amenity and create_amenity_with_tags calls were made,
\* the table holds at most one row of a pair.
C27_AttachIdempotent ==
    [][/\ (last'.res.kind = "attach_tag_to_amenity"
              /\ last'.res.path # "OperationalError") =>
            LET row == [amenityid |-> last'.req.amenity_id,
                        tagid |-> last'.req.tag_id]
            IN  IF row \in amenitytag
                THEN /\ last'.res.status = 200
                     /\ last'.res.path = "already attached"
                     /\ amenitytag' = amenitytag
                ELSE IF /\ \E x \in amenity : x.amenityid = row.amenityid
                        /\ \E x \in tag : x.tagid = row.tagid
                THEN /\ last'.res.status = 200
                     /\ last'.res.rows = <<row>>
                     /\ amenitytag' = amenitytag \cup {row}
                ELSE /\ last'.res.status = 400
                     /\ amenitytag' = amenitytag
       /\ \A x, y \in amenitytag' :
            x.amenityid = y.amenityid /\ x.tagid = y.tagid => x = y
      ]_vars

\* A pair has been attached again after it was attached, detached and
\* attached: the answer is the acknowledgement.
C27_Witness ==
    /\ last.res.kind = "attach_tag_to_amenity"
    /\ last.res.path = "already attached"
    /\ Cardinality(amenitytag) = 2

\* ----------------------------------------------------------------- C28
\* C28: every Amenity row has one of the types Bathroom, WaterFountain,
\* VendingMachine, and a create_amenity, update_amenity or
\* create_amenity_with_tags call that gives another type is answered with
\* 400.
C28_AmenityTypeInSet ==
    /\ \A a \in amenity : a.type \in AmenityTypes
    /\ (last.res.kind \in {"create_amenity", "create_amenity_with_tags"}
            /\ last.req.type \notin AmenityTypes) =>
          last.res.status = 400
    /\ (last.res.kind = "update_amenity"
            /\ "type" \in last.req.payload.given
            /\ last.req.payload.type \notin AmenityTypes) =>
          last.res.status = 400

\* C32: insert_buildings_and_amenities treats the address text and the
\* building name as natural keys.  Once a call has returned, on a store whose
\* address texts and building names were unique: no two Address rows share
\* a text and no two Building rows share a name; every row the store held
\* keeps its id and its key; and a second call with the same list leaves
\* the Address and Building rows with the ids and keys the first call left.
C32_NaturalKeys ==
    \A c \in {1} :
        (hist[c] # NoOp /\ pc[c] = "idle" /\ conn[c] = "ready") =>
            /\ \A x, y \in address :
                    x.address = y.address => x.addressid = y.addressid
            /\ \A x, y \in building :
                    x.name = y.name => x.buildingid = y.buildingid
            /\ \A r \in hist[c].before.address : \E x \in address :
                    x.addressid = r.addressid /\ x.address = r.address
            /\ \A r \in hist[c].before.building : \E x \in building :
                    x.buildingid = r.buildingid /\ x.name = r.name
            /\ hist[c].runs = 2 =>
                /\ {<<x.addressid, x.address>> : x \in address}
                     = {<<x.addressid, x.address>> : x \in hist[c].first.address}
                /\ {<<x.buildingid, x.name>> : x \in building}
                     = {<<x.buildingid, x.name>> :
                            x \in hist[c].first.building}

\* The script has run twice on a list that names one building twice, on a
\* store that held a building; the first run inserted an address.
C32_Witness ==
    /\ hist[1] # NoOp
    /\ hist[1].runs = 2
    /\ pc[1] = "idle"
    /\ Len(hist[1].buildings_data) = 2
    /\ hist[1].buildings_data[1].name = hist[1].buildings_data[2].name
    /\ hist[1].before.building # {}
    /\ Cardinality(hist[1].first.address)
            > Cardinality(hist[1].before.address)
    /\ \E x \in hist[1].before.building : \E y \in building :
            x.buildingid = y.buildingid /\ x.addressid # y.addressid

\* C31: a duplicate hit while the script inserts users does not affect the
\* other users.  Once the users are committed, every id collected in
\* user_ids is the id of a User row of the store, and so is the userid of
\* every row generated into review_rows.
C31_UserIdsPersisted ==
    \A c \in {1} :
        (pc[c] \in {"tags", "for_reviews", "amenitytags", "done"}) =>
            /\ \A i \in DOMAIN op[c].user_ids :
                    op[c].user_ids[i] \in {x.userid : x \in user}
            /\ \A i \in DOMAIN op[c].review_rows :
                    op[c].review_rows[i].userid \in {x.userid : x \in user}

\* C33: the script keeps one review per (userid, amenityid).  When
\* review_rows holds several rows of a pair, or a row of a pair the store
\* has a review of, executemany raises no error, and after it the
\* transaction sees exactly one review of the pair: the review the store
\* had, or else the first row of the pair in review_rows; after the commit
\* the store holds exactly one review of each repeated pair.
C33_SeedKeepsOnePerPair ==
    LET rows == last.req.review_rows
        SamePair(i, j) == /\ rows[i].userid = rows[j].userid
                          /\ rows[i].amenityid = rows[j].amenityid
        Repeated(i) == \E j \in DOMAIN rows : j # i /\ SamePair(i, j)
        Stored(i) == ReviewsOfPair(rows[i].userid, rows[i].amenityid)
        First(i) == CHOOSE j \in DOMAIN rows :
                        /\ SamePair(i, j)
                        /\ \A k \in DOMAIN rows : SamePair(i, k) => j <= k
        Seen(i) == {x \in Overlay(review, pending[last.c].review, "reviewid") :
                        /\ x.userid = rows[i].userid
                        /\ x.amenityid = rows[i].amenityid}
    IN  /\ last.a = "generate_and_insert_random_data_executemany" =>
            \A i \in DOMAIN rows : (Repeated(i) \/ Stored(i) # {}) =>
                /\ last.res.path = ""
                /\ Cardinality(Seen(i)) = 1
                /\ \A x \in Seen(i) :
                        IF Stored(i) # {} THEN x \in Stored(i)
                        ELSE /\ x.overallrating = rows[First(i)].overallrating
                             /\ x.ratingdetails = rows[First(i)].ratingdetails
        /\ last.a = "generate_and_insert_random_data_commit" =>
            \A i \in DOMAIN rows : Repeated(i) => Cardinality(Stored(i)) = 1

====
